---- MODULE Spec2Model ----
(***************************************************************************)
(* Entitlement and usage metering of caption-ai: the /generate, /optimize  *)
(* and /check-subscription handlers and the Stripe webhook of the server   *)
(* variants kept in this repository, over the in-memory usage map (or the  *)
(* User collection) they share.                                            *)
(*                                                                         *)
(* A handler runs atomically between two awaits; every await on an         *)
(* external call (Stripe, Groq, the database) is a point where other       *)
(* handlers run.  Records are JavaScript objects: `usage` maps a key to an *)
(* object reference and a handler keeps the reference it read.             *)
(***************************************************************************)
EXTENDS Integers, Sequences, FiniteSets, TLC

\* ------------------------------------------------------------------ bounds
\* number of request handlers that can be in flight at once
NumSlots == 2
\* no request is started for a record whose count is FREE_TIER_LIMIT + Over,
\* or below -Over
Over == 2
\* the same cap in the runs that do not need to exhaust the quota
SmallCount == 2

\* --------------------------------------------------------------- constants
FREE_TIER_LIMIT == 10

\* ----------------------------------------------------------------- strings
\* An email is a sequence of characters; "" (and a missing field) is << >>.
LowerChar(c) == CASE c = "U" -> "u" [] c = "V" -> "v" [] OTHER -> c

toLowerCase(s) == [i \in 1..Len(s) |-> LowerChar(s[i])]

RECURSIVE trimStart(_)
trimStart(s) == IF s # << >> /\ Head(s) = " " THEN trimStart(Tail(s)) ELSE s

RECURSIVE trimEnd(_)
trimEnd(s) == IF s # << >> /\ s[Len(s)] = " "
              THEN trimEnd(SubSeq(s, 1, Len(s) - 1)) ELSE s

trim(s) == trimEnd(trimStart(s))

\* the spellings requests and events arrive with: "u", " U", "v", "V "
RawEmails == { <<"u">>, <<" ", "U">>, <<"v">>, <<"V", " ">> }

\* emails listed in free-pro-users.json
VipFileEmails == { <<"V">> }

vipEmails == { trim(toLowerCase(e)) : e \in VipFileEmails }

isVipEmail(email) == trim(toLowerCase(email)) \in vipEmails

\* the identity a raw email stands for (spec section 3)
Identity(email) == trim(toLowerCase(email))

Identities == { Identity(e) : e \in RawEmails }

\* every key a server variant can write into its store
Keys == Identities \cup { toLowerCase(e) : e \in RawEmails }

\* ------------------------------------------------------------------- state
\* S1 and S2 are the two servers of server.js, P1 and P1B the first and the
\* second server of unnamed/part_001, P2 the server of
\* unnamed/part_002, P3 the first server of unnamed/part_003, P4 the server of
\* unnamed/part_004, DOC the server of unnamed/part_000 over the User
\* collection; P3 has the request handlers of S1 and a webhook of its own
Servers == { "S1", "S2", "P1", "P1B", "P2", "P3", "P4", "DOC" }

ChargeFirst == { "S1", "P3" }

Slots == 1..NumSlots

MaxCount == FREE_TIER_LIMIT + Over

MaxObj == Cardinality(Keys) + NumSlots + 1

ObjIds == 1..MaxObj

VARIABLES
  srv,      \* which server variant is running
  usage,    \* key -> object reference, 0 when the key is absent
  heap,     \* object reference -> record
  req,      \* slot -> the request handler running in it
  wh,       \* the webhook handler
  last,     \* the response sent last
  served,   \* identity -> /generate requests answered 200; -1 once billing
            \* reported the identity subscribed, an event reached its record,
            \* a generation failed or the identity called /optimize
  seqOnly,  \* identity -> served is counting and no two requests overlapped
  twin      \* the record and the last response of the in-memory server and of
            \* the document-store server when both are given the same inputs

vars == << srv, usage, heap, req, wh, last, served, seqOnly, twin >>

FreshObj == [generations |-> 0, subscribed |-> FALSE, lastCheck |-> 0]

\* vres is isCurrentlySubscribedOnStripe; threw (a Stripe call threw),
\* absent (Stripe answered that the email has no customer or no active
\* subscription), charged (the net amount this handler added to
\* record.generations), checked (the handler ran the free-tier test and was
\* not denied) and upgraded (the request came right after the webhook of
\* part_000 had handled an upgrade event about its email, which had no
\* document) are kept for the properties, and so is before (what
\* record.generations was when a request of part_004 arrived)
IdleSlot == [pc |-> "idle", kind |-> "none", key |-> << >>, record |-> 0,
             isVip |-> FALSE, isPro |-> FALSE, vres |-> "none", threw |-> FALSE,
             charged |-> 0, checked |-> FALSE, absent |-> FALSE, upgraded |-> FALSE,
             before |-> 0]

\* no record under a key
NoRecord == [generations |-> 0, subscribed |-> FALSE, lastCheck |-> -1]

\* failed tells that a Stripe call of the commission logic failed
IdleWebhook == [pc |-> "idle", type |-> "none", email |-> << >>, failed |-> FALSE]

\* threw, was and absent describe a denial: a Stripe call of the denied
\* request threw, its record was subscribed when the verifier answered, Stripe
\* answered that the email has no customer or no active subscription
\* a webhook's response carries the event type as kind; replay tells that the
\* response before it answered an event of the same type about the same
\* identity; full tells that a denial came after FREE_TIER_LIMIT requests
\* served one after the other, after that the response before a webhook's was
\* such a denial of the same identity, failed that a Stripe call of the
\* commission logic failed while the event was handled; ans and vres are what Stripe answered
\* to the verifier of a /check-subscription request and what the verifier
\* returned, isPro the isPro of the response of S2 to that request
NoResponse == [kind |-> "none", key |-> << >>, status |-> 0, isVip |-> FALSE,
               threw |-> FALSE, was |-> FALSE, charged |-> 0, replay |-> FALSE,
               full |-> FALSE, after |-> FALSE, ans |-> "none", vres |-> "none",
               absent |-> FALSE, failed |-> FALSE, isPro |-> FALSE]

\* res.status(st).json(...) of the request handler r
Response(r, st) == [NoResponse EXCEPT !.kind = r.kind, !.key = r.key, !.status = st,
                                      !.isVip = r.isVip, !.charged = r.charged]

\* res.status(402).json(...) of the request handler r whose record was
\* subscribed (or not) when the verifier answered
Denial(r, was) ==
  [Response(r, 402) EXCEPT !.threw = r.threw, !.was = was, !.absent = r.absent,
                           !.full = /\ r.kind = "generate" /\ seqOnly[r.key]
                                    /\ served[r.key] = FREE_TIER_LIMIT]

\* the record stored under key, NoRecord when there is none
RecordAt(u, h, key) == IF key \notin Keys \/ u[key] = 0 THEN NoRecord ELSE h[u[key]]

\* objects some handler or the store still refers to
Live(u, rq) == { u[k] : k \in Keys } \cup { rq[s].record : s \in Slots }

\* the reference `{ ... }` evaluates to: an object nothing refers to
NewObj(u, rq) == CHOOSE o \in ObjIds :
                   /\ o \notin Live(u, rq)
                   /\ \A p \in ObjIds : p \notin Live(u, rq) => o <= p

\* unreferenced objects are garbage
Collect(h, u, rq) == [o \in ObjIds |-> IF o \in Live(u, rq) THEN h[o] ELSE FreshObj]

\* neither server has been given an input
NoTwin == [email |-> << >>, mem |-> NoRecord, doc |-> NoRecord,
           memStatus |-> 0, docStatus |-> 0]

InitStore ==
  /\ twin = NoTwin
  /\ usage = [k \in Keys |-> 0]
  /\ heap = [o \in ObjIds |-> FreshObj]
  /\ req = [s \in Slots |-> IdleSlot]
  /\ wh = IdleWebhook
  /\ last = NoResponse
  /\ served = [i \in Identities |-> 0]
  /\ seqOnly = [i \in Identities |-> TRUE]

\* --------------------------------------------------------- shared helpers
\* getUserUsage creating every record unsubscribed
getUserUsage_Unsubscribed(u, h, rq, email) ==
  LET key == trim(toLowerCase(email))
      o   == NewObj(u, rq)
  IN  IF u[key] = 0
      THEN [usage  |-> [u EXCEPT ![key] = o],
            heap   |-> [h EXCEPT ![o] = FreshObj],
            key    |-> key,
            record |-> o]
      ELSE [usage |-> u, heap |-> h, key |-> key, record |-> u[key]]

\* getUserUsage: the store and heap after the call, the key and the record
getUserUsage(u, h, rq, email) ==
  LET key == trim(toLowerCase(email))
      o   == NewObj(u, rq)
  IN  IF u[key] = 0
      THEN [usage  |-> [u EXCEPT ![key] = o],
            heap   |-> [h EXCEPT ![o] = [FreshObj EXCEPT !.subscribed = isVipEmail(email)]],
            key    |-> key,
            record |-> o]
      ELSE [usage |-> u, heap |-> h, key |-> key, record |-> u[key]]

\* the Stripe calls that found no customer or no active subscription
Absent(ans) == ans \in { "noCustomer", "noActiveSubscription" }

\* what Stripe can answer to customers.list followed by subscriptions.list
StripeAnswers == { "customersError", "noCustomer", "subscriptionsError",
                   "noActiveSubscription", "activeSubscription" }

\* the Stripe calls that end in the catch block
Threw(ans) == ans \in { "customersError", "subscriptionsError" }

\* the verifier answering false from its catch block
refreshStripeSubscriptionStatus_FalseOnError(ans) ==
  IF ans = "activeSubscription" THEN "true" ELSE "false"

\* refreshStripeSubscriptionStatus: "true", "false" or "null"
refreshStripeSubscriptionStatus(ans) ==
  CASE ans = "customersError"       -> "null"
    [] ans = "noCustomer"           -> "false"
    [] ans = "subscriptionsError"   -> "null"
    [] ans = "noActiveSubscription" -> "false"
    [] ans = "activeSubscription"   -> "true"

\* the subscription logic without its two tests of isVip
SubscriptionLogic_NoVip(rec, isVip, res) ==
  IF res = "true" THEN [rec EXCEPT !.subscribed = TRUE]
  ELSE IF res = "false" THEN [rec EXCEPT !.subscribed = FALSE]
  ELSE rec

\* the subscription logic of /generate: the record after it
SubscriptionLogic(rec, isVip, res) ==
  LET r1 == IF res = "true" THEN [rec EXCEPT !.subscribed = TRUE]
            ELSE IF res = "false" /\ ~isVip THEN [rec EXCEPT !.subscribed = FALSE]
            ELSE rec
  IN  IF isVip THEN [r1 EXCEPT !.subscribed = TRUE] ELSE r1

\* the free-tier test with > for >=
QuotaExceeded_OffByOne(rec) == ~rec.subscribed /\ rec.generations > FREE_TIER_LIMIT

\* the free-tier test that answers 402
QuotaExceeded(rec) == ~rec.subscribed /\ rec.generations >= FREE_TIER_LIMIT

\* bookkeeping of served and seqOnly
OthersInFlight(s, key) == \E t \in Slots \ {s} : req[t].pc # "idle" /\ req[t].key = key

Reported(i) == /\ served' = [served EXCEPT ![i] = -1]
               /\ seqOnly' = [seqOnly EXCEPT ![i] = FALSE]

Counted(i) == /\ served' = [served EXCEPT ![i] = IF @ = -1 THEN -1 ELSE @ + 1]
              /\ UNCHANGED seqOnly


\* a handler up to its first await: getUserUsage, isVipEmail, then the
\* call of refreshStripeSubscriptionStatus
Begin(s, kind, email, cap, g, isVip) ==
  LET i == Identity(email)
  IN  /\ g.heap[g.record].generations < cap
      /\ req' = [req EXCEPT ![s] = [IdleSlot EXCEPT !.pc = "verify", !.kind = kind,
                                      !.key = g.key, !.record = g.record,
                                      !.isVip = isVip]]
      /\ usage' = g.usage
      /\ heap' = Collect(g.heap, usage', req')
      /\ IF kind = "generate"
         THEN /\ seqOnly' = [seqOnly EXCEPT ![i] = @ /\ ~OthersInFlight(s, g.key)]
              /\ UNCHANGED served
         ELSE Reported(i)
      /\ UNCHANGED << srv, twin, wh, last >>

\* the same with the getUserUsage and isVipEmail of server.js
BeginRequest(s, kind, email, cap) ==
  Begin(s, kind, email, cap, getUserUsage(usage, heap, req, email), isVipEmail(email))

\* the 400 answered only after getUserUsage ran for the email of the request
Reject400_AfterLookup(s, kind) ==
  /\ last' = Response([IdleSlot EXCEPT !.kind = kind], 400)
  /\ \E e \in RawEmails :
       /\ usage' = getUserUsage(usage, heap, req, e).usage
       /\ heap' = getUserUsage(usage, heap, req, e).heap
  /\ UNCHANGED << srv, twin, req, wh, served, seqOnly >>

\* a request answered 400 before anything else happened
Reject400(s, kind) ==
  /\ last' = Response([IdleSlot EXCEPT !.kind = kind], 400)
  /\ UNCHANGED << srv, twin, usage, heap, req, wh, served, seqOnly >>

\* ------------------------------------------- server.js, second server (S2)
\* POST /generate, lines 556-567
S2_GenerateStart(s, email, complete, cap) ==
  /\ srv = "S2"
  /\ req[s].pc = "idle"
  /\ IF ~complete \/ email = << >>
     THEN Reject400(s, "generate")
     ELSE BeginRequest(s, "generate", email, cap)

\* refreshStripeSubscriptionStatus, lines 376-392: the promise of
\* stripe.customers.list or stripe.subscriptions.list is never settled; the
\* function has only its try and catch around the two awaits, no timer, so
\* the handler stays suspended at line 567 (or 642)
VerifierNeverReturns(s) ==
  /\ srv = "S2"
  /\ req[s].pc = "verify"
  /\ req' = [req EXCEPT ![s].pc = "suspended"]
  /\ UNCHANGED << srv, twin, usage, heap, wh, last, served, seqOnly >>

\* the free-tier test on the record rec the subscription logic left, up to
\* the 402 or to the call of groq.chat.completions.create
Decide(s, r, rec) ==
  LET h1 == [heap EXCEPT ![r.record] = rec]
  IN  /\ IF QuotaExceeded(rec)
         THEN /\ last' = Denial(r, heap[r.record].subscribed)
              /\ req' = [req EXCEPT ![s] = IdleSlot]
         ELSE /\ req' = [req EXCEPT ![s] = [r EXCEPT !.pc = "gen", !.checked = TRUE]]
              /\ UNCHANGED last
      /\ heap' = Collect(h1, usage, req')
      /\ IF r.vres = "true" THEN Reported(r.key) ELSE UNCHANGED << served, seqOnly >>
      /\ UNCHANGED << srv, twin, usage, wh >>

\* the handler in slot s once refreshStripeSubscriptionStatus has answered
Verified(s, ans) == [req[s] EXCEPT !.vres = refreshStripeSubscriptionStatus(ans),
                                   !.threw = Threw(ans), !.absent = Absent(ans)]

\* POST /generate, lines 567-606: the verifier has answered
S2_GenerateVerified(s, ans) ==
  /\ srv = "S2"
  /\ req[s].pc = "verify" /\ req[s].kind = "generate"
  /\ LET r == Verified(s, ans)
     IN  Decide(s, r, SubscriptionLogic(heap[r.record], r.isVip, r.vres))

\* groq.chat.completions.create has settled: on success
\* `record.generations += 1; usage[key] = record` and 200, else 500
ChargeOnSuccess(s, ok) ==
  LET r  == [req[s] EXCEPT !.charged = IF ok THEN @ + 1 ELSE @]
      h1 == [heap EXCEPT ![r.record].generations = @ + 1]
  IN  /\ last' = Response(r, IF ok THEN 200 ELSE 500)
      /\ req' = [req EXCEPT ![s] = IdleSlot]
      /\ usage' = IF ok THEN [usage EXCEPT ![r.key] = r.record] ELSE usage
      /\ heap' = Collect(IF ok THEN h1 ELSE heap, usage', req')
      /\ IF ok THEN Counted(r.key) ELSE Reported(r.key)
      /\ UNCHANGED << srv, twin, wh >>

\* POST /generate, lines 606-627
S2_GenerateCompleted(s, ok) ==
  /\ srv = "S2"
  /\ req[s].pc = "gen" /\ req[s].kind = "generate"
  /\ ChargeOnSuccess(s, ok)

\* POST /optimize, lines 631-642
S2_OptimizeStart(s, email, complete, cap) ==
  /\ srv = "S2"
  /\ req[s].pc = "idle"
  /\ IF ~complete \/ email = << >>
     THEN Reject400(s, "optimize")
     ELSE BeginRequest(s, "optimize", email, cap)

\* the subscription logic of /optimize, lines 644-652
OptimizeSubscriptionLogic(rec, isVip, res) ==
  LET r1 == IF res = "true" THEN [rec EXCEPT !.subscribed = TRUE]
            ELSE IF res = "false" /\ ~isVip THEN [rec EXCEPT !.subscribed = FALSE]
            ELSE rec
  IN  IF isVip THEN [r1 EXCEPT !.subscribed = TRUE] ELSE r1

\* POST /optimize, lines 642-678
S2_OptimizeVerified(s, ans) ==
  /\ srv = "S2"
  /\ req[s].pc = "verify" /\ req[s].kind = "optimize"
  /\ LET r == Verified(s, ans)
     IN  Decide(s, r, OptimizeSubscriptionLogic(heap[r.record], r.isVip, r.vres))

\* POST /optimize, lines 678-695: no counter is touched
S2_OptimizeCompleted(s, ok) ==
  /\ srv = "S2"
  /\ req[s].pc = "gen" /\ req[s].kind = "optimize"
  /\ last' = Response(req[s], IF ok THEN 200 ELSE 500)
  /\ req' = [req EXCEPT ![s] = IdleSlot]
  /\ heap' = Collect(heap, usage, req')
  /\ UNCHANGED << srv, twin, usage, wh, served, seqOnly >>

\* GET /check-subscription, lines 428-451: the handler awaits the verifier
\* for an email outside the VIP list and reads nothing of the store
S2_CheckSubscription(email, ans) ==
  /\ srv = "S2"
  /\ last' = IF email = << >>
             THEN [NoResponse EXCEPT !.kind = "check-subscription", !.status = 400]
             ELSE [NoResponse EXCEPT !.kind = "check-subscription", !.status = 200,
                                     !.key = trim(toLowerCase(email)),
                                     !.isVip = isVipEmail(email),
                                     !.threw = ~isVipEmail(email) /\ Threw(ans),
                                     !.ans = IF isVipEmail(email) THEN "none" ELSE ans,
                                     !.vres = IF isVipEmail(email) THEN "none"
                                              ELSE refreshStripeSubscriptionStatus(ans),
                                     !.isPro = \/ isVipEmail(email)
                                               \/ refreshStripeSubscriptionStatus(ans) = "true"]
  /\ UNCHANGED << srv, twin, usage, heap, req, wh, served, seqOnly >>

\* -------------------------------------------- server.js, first server (S1)
\* POST /generate, lines 120-131
S1_GenerateStart(s, email, complete, cap) ==
  /\ srv \in ChargeFirst
  /\ req[s].pc = "idle"
  /\ IF ~complete \/ email = << >>
     THEN Reject400(s, "generate")
     ELSE BeginRequest(s, "generate", email, cap)

\* the handler once refreshStripeSubscriptionStatus has answered, up to the
\* 402 or, past `record.generations += 1; usage[key] = record`, to the call
\* of groq.chat.completions.create
ChargingGate(s, ans) ==
  LET r   == Verified(s, ans)
      rec == SubscriptionLogic(heap[r.record], r.isVip, r.vres)
      h1  == [heap EXCEPT ![r.record] = rec]
      h2  == [heap EXCEPT ![r.record] = [rec EXCEPT !.generations = @ + 1]]
  IN  /\ IF QuotaExceeded(rec)
         THEN /\ last' = Denial(r, heap[r.record].subscribed)
              /\ req' = [req EXCEPT ![s] = IdleSlot]
              /\ usage' = usage
              /\ heap' = Collect(h1, usage', req')
         ELSE /\ req' = [req EXCEPT ![s] = [r EXCEPT !.pc = "gen", !.charged = @ + 1,
                                                     !.checked = TRUE]]
              /\ usage' = [usage EXCEPT ![r.key] = r.record]
              /\ heap' = Collect(h2, usage', req')
              /\ UNCHANGED last
      /\ IF r.vres = "true" THEN Reported(r.key) ELSE UNCHANGED << served, seqOnly >>
      /\ UNCHANGED << srv, twin, wh >>

\* POST /generate, lines 131-164
S1_GenerateVerified(s, ans) ==
  /\ srv \in ChargeFirst
  /\ req[s].pc = "verify" /\ req[s].kind = "generate"
  /\ ChargingGate(s, ans)

\* POST /generate, lines 164-177: only the response is left
S1_GenerateCompleted(s, ok) ==
  /\ srv \in ChargeFirst
  /\ req[s].pc = "gen" /\ req[s].kind = "generate"
  /\ last' = Response(req[s], IF ok THEN 200 ELSE 500)
  /\ req' = [req EXCEPT ![s] = IdleSlot]
  /\ heap' = Collect(heap, usage, req')
  /\ IF ok THEN Counted(req[s].key) ELSE Reported(req[s].key)
  /\ UNCHANGED << srv, twin, usage, wh >>

\* POST /optimize, lines 181-192
S1_OptimizeStart(s, email, complete, cap) ==
  /\ srv \in ChargeFirst
  /\ req[s].pc = "idle"
  /\ IF ~complete \/ email = << >>
     THEN Reject400(s, "optimize")
     ELSE BeginRequest(s, "optimize", email, cap)

\* POST /optimize, lines 192-223
S1_OptimizeVerified(s, ans) ==
  /\ srv \in ChargeFirst
  /\ req[s].pc = "verify" /\ req[s].kind = "optimize"
  /\ ChargingGate(s, ans)

\* POST /optimize, lines 223-236
S1_OptimizeCompleted(s, ok) ==
  /\ srv \in ChargeFirst
  /\ req[s].pc = "gen" /\ req[s].kind = "optimize"
  /\ last' = Response(req[s], IF ok THEN 200 ELSE 500)
  /\ req' = [req EXCEPT ![s] = IdleSlot]
  /\ heap' = Collect(heap, usage, req')
  /\ UNCHANGED << srv, twin, usage, wh, served, seqOnly >>

\* ------------------------------------------------- unnamed/part_002 (P2)
\* getUserRecord, lines 163-167
getUserRecord(u, h, rq, email) ==
  LET key == trim(toLowerCase(email))
      o   == NewObj(u, rq)
  IN  IF u[key] = 0
      THEN [usage |-> [u EXCEPT ![key] = o], heap |-> [h EXCEPT ![o] = FreshObj],
            key |-> key, record |-> o]
      ELSE [usage |-> u, heap |-> h, key |-> key, record |-> u[key]]

\* checkStripeSubscription, lines 169-189: the record after it
checkStripeSubscription(rec, ans) ==
  IF ans = "activeSubscription" THEN [rec EXCEPT !.subscribed = TRUE] ELSE rec

\* a handler of P2 once checkStripeSubscription has answered; vres is the value
\* it returned
P2_Gate(s, ans) ==
  LET rec == checkStripeSubscription(heap[req[s].record], ans)
      r   == [req[s] EXCEPT !.vres = IF rec.subscribed THEN "true" ELSE "false",
                             !.threw = Threw(ans), !.absent = Absent(ans)]
  IN  Decide(s, r, rec)

\* POST /generate, lines 199-208
P2_GenerateStart(s, email, complete, cap) ==
  /\ srv = "P2"
  /\ req[s].pc = "idle"
  /\ IF ~complete \/ email = << >>
     THEN Reject400(s, "generate")
     ELSE Begin(s, "generate", email, cap, getUserRecord(usage, heap, req, email), FALSE)

\* POST /generate, lines 208-232
P2_GenerateVerified(s, ans) ==
  /\ srv = "P2"
  /\ req[s].pc = "verify" /\ req[s].kind = "generate"
  /\ P2_Gate(s, ans)

\* POST /generate, lines 232-254
P2_GenerateCompleted(s, ok) ==
  /\ srv = "P2"
  /\ req[s].pc = "gen" /\ req[s].kind = "generate"
  /\ ChargeOnSuccess(s, ok)

\* POST /boost, lines 258-266
P2_BoostStart(s, email, complete, cap) ==
  /\ srv = "P2"
  /\ req[s].pc = "idle"
  /\ IF ~complete \/ email = << >>
     THEN Reject400(s, "boost")
     ELSE Begin(s, "boost", email, cap, getUserRecord(usage, heap, req, email), FALSE)

\* POST /boost, lines 266-284
P2_BoostVerified(s, ans) ==
  /\ srv = "P2"
  /\ req[s].pc = "verify" /\ req[s].kind = "boost"
  /\ P2_Gate(s, ans)

\* POST /boost, lines 284-307
P2_BoostCompleted(s, ok) ==
  /\ srv = "P2"
  /\ req[s].pc = "gen" /\ req[s].kind = "boost"
  /\ ChargeOnSuccess(s, ok)

\* ---------------------------------- unnamed/part_001, first server (P1)
\* `usage[key] || { generations: 0, subscribed: false }`, lines 49-50 and
\* 129-130: the stored object, or a new one that is not stored
P1_User(u, h, rq, email) ==
  LET key == trim(toLowerCase(email))
      o   == NewObj(u, rq)
  IN  IF u[key] = 0
      THEN [heap |-> [h EXCEPT ![o] = FreshObj], key |-> key, record |-> o]
      ELSE [heap |-> h, key |-> key, record |-> u[key]]

\* POST /generate, lines 42-54: up to the await of stripe.customers.list
P1_GenerateStart(s, email, complete, cap) ==
  LET g == P1_User(usage, heap, req, email)
  IN  /\ srv = "P1"
      /\ req[s].pc = "idle"
      /\ IF ~complete \/ email = << >>
         THEN Reject400(s, "generate")
         ELSE /\ g.heap[g.record].generations < cap
              /\ req' = [req EXCEPT ![s] = [IdleSlot EXCEPT !.pc = "verify",
                                              !.kind = "generate", !.key = g.key,
                                              !.record = g.record]]
              /\ heap' = Collect(g.heap, usage, req')
              /\ UNCHANGED << srv, twin, usage, wh, last, served, seqOnly >>

\* POST /generate, lines 54-96: the Stripe calls have settled; an active
\* subscription marks and stores the record, then comes the 402 or, past
\* `user.generations++; usage[key] = user`, the call of
\* groq.chat.completions.create
P1_GenerateVerified(s, ans) ==
  LET active == ans = "activeSubscription"
      r   == [req[s] EXCEPT !.vres = IF active THEN "true" ELSE "none",
                             !.threw = Threw(ans), !.absent = Absent(ans)]
      rec == IF active THEN [heap[r.record] EXCEPT !.subscribed = TRUE]
             ELSE heap[r.record]
      u1  == IF active THEN [usage EXCEPT ![r.key] = r.record] ELSE usage
  IN  /\ srv = "P1"
      /\ req[s].pc = "verify" /\ req[s].kind = "generate"
      /\ IF QuotaExceeded(rec)
         THEN /\ last' = Denial(r, heap[r.record].subscribed)
              /\ req' = [req EXCEPT ![s] = IdleSlot]
              /\ usage' = u1
              /\ heap' = Collect([heap EXCEPT ![r.record] = rec], usage', req')
         ELSE /\ req' = [req EXCEPT ![s] = [r EXCEPT !.pc = "gen", !.charged = 1,
                                                     !.checked = TRUE]]
              /\ usage' = [u1 EXCEPT ![r.key] = r.record]
              /\ heap' = Collect([heap EXCEPT ![r.record] =
                                    [rec EXCEPT !.generations = @ + 1]], usage', req')
              /\ UNCHANGED last
      /\ UNCHANGED << srv, twin, wh, served, seqOnly >>

\* POST /optimize, lines 122-178: `usage[key] = user`, then the call of
\* groq.chat.completions.create; the handler has no free-tier test
P1_OptimizeStart(s, email, complete) ==
  LET g == P1_User(usage, heap, req, email)
  IN  /\ srv = "P1"
      /\ req[s].pc = "idle"
      /\ IF ~complete \/ email = << >>
         THEN Reject400(s, "optimize")
         ELSE /\ req' = [req EXCEPT ![s] = [IdleSlot EXCEPT !.pc = "gen",
                                              !.kind = "optimize", !.key = g.key,
                                              !.record = g.record]]
              /\ usage' = [usage EXCEPT ![g.key] = g.record]
              /\ heap' = Collect(g.heap, usage', req')
              /\ UNCHANGED << srv, twin, wh, last, served, seqOnly >>

\* POST /generate, lines 96-111, and POST /optimize, lines 178-191:
\* groq.chat.completions.create has settled, only the response is left
P1_Completed(s, ok) ==
  /\ srv = "P1"
  /\ req[s].pc = "gen"
  /\ last' = Response(req[s], IF ok THEN 200 ELSE 500)
  /\ req' = [req EXCEPT ![s] = IdleSlot]
  /\ heap' = Collect(heap, usage, req')
  /\ UNCHANGED << srv, twin, usage, wh, served, seqOnly >>

\* ------------------------------------------------- unnamed/part_004 (P4)
\* VIP_EMAILS, line 31: one listed address stands for the two
VIP_EMAILS == { <<"v">> }

\* isVipEmail, lines 35-37
P4_isVipEmail(email) == toLowerCase(email) \in VIP_EMAILS

\* getUserUsage, lines 39-45
P4_getUserUsage(u, h, rq, email) ==
  LET key == trim(toLowerCase(email))
      o   == NewObj(u, rq)
  IN  IF u[key] = 0
      THEN [usage |-> [u EXCEPT ![key] = o], heap |-> [h EXCEPT ![o] = FreshObj],
            key |-> key, record |-> o]
      ELSE [usage |-> u, heap |-> h, key |-> key, record |-> u[key]]

\* refreshStripeSubscriptionStatus, lines 48-64, on the record getUserUsage
\* gave it: the record after it and the value returned; recent tells that
\* lastCheck is less than a day old, lastCheck 1 is a Date.now()
P4_refreshStripeSubscriptionStatus(rec, recent) ==
  IF rec.subscribed /\ recent /\ rec.lastCheck # 0
  THEN [record |-> rec, result |-> TRUE]
  ELSE [record |-> [rec EXCEPT !.lastCheck = 1], result |-> rec.subscribed]

\* the subscription logic of /generate and /optimize, lines 116-128
P4_SubscriptionLogic(rec, isVipUser, isCurrentlySubscribed) ==
  LET r1 == IF isCurrentlySubscribed THEN [rec EXCEPT !.subscribed = TRUE]
            ELSE IF ~isVipUser THEN [rec EXCEPT !.subscribed = FALSE]
            ELSE rec
  IN  IF isVipUser THEN [r1 EXCEPT !.subscribed = TRUE] ELSE r1

\* what parseInt(currentGenerations) || 0 can be
ClientCounts == { 0, FREE_TIER_LIMIT, -1 }

\* GET /check-subscription, lines 87-97; the mock verifier awaits nothing
P4_CheckSubscription(email, recent) ==
  LET g == P4_getUserUsage(usage, heap, req, email)
      v == P4_refreshStripeSubscriptionStatus(g.heap[g.record], recent)
  IN  /\ srv = "P4"
      /\ IF email = << >>
         THEN /\ last' = [NoResponse EXCEPT !.kind = "check-subscription", !.status = 400]
              /\ UNCHANGED << usage, heap >>
         ELSE /\ last' = [NoResponse EXCEPT !.kind = "check-subscription",
                                            !.key = g.key, !.status = 200,
                                            !.isVip = P4_isVipEmail(email)]
              /\ usage' = g.usage
              /\ heap' = Collect([g.heap EXCEPT ![g.record] = v.record], usage', req)
      /\ UNCHANGED << srv, twin, req, wh, served, seqOnly >>

\* a handler of P4 from the request to the 402 or, past the increment, to the
\* call of groq.chat.completions.create: nothing is awaited on the way but
\* the mock verifier, which awaits nothing
P4_Begin(s, kind, email, cg, recent, cap) ==
  LET g  == P4_getUserUsage(usage, heap, req, email)
      r0 == g.heap[g.record]
      r1 == IF r0.generations = 0 THEN [r0 EXCEPT !.generations = cg] ELSE r0
      v  == P4_refreshStripeSubscriptionStatus(r1, recent)
      r2 == P4_SubscriptionLogic(v.record, P4_isVipEmail(email), v.result)
      r  == [IdleSlot EXCEPT !.kind = kind, !.key = g.key, !.record = g.record,
                             !.isVip = P4_isVipEmail(email)]
  IN  /\ r1.generations < cap /\ r1.generations >= -Over
      /\ IF QuotaExceeded(r2)
         THEN /\ last' = Response(r, 402)
              /\ req' = req
              /\ usage' = g.usage
              /\ heap' = Collect([g.heap EXCEPT ![g.record] = r2], usage', req')
         ELSE /\ req' = [req EXCEPT ![s] = [r EXCEPT !.pc = "gen", !.charged = 1,
                                                     !.checked = TRUE,
                                                     !.before = r0.generations]]
              /\ usage' = [g.usage EXCEPT ![g.key] = g.record]
              /\ heap' = Collect([g.heap EXCEPT ![g.record] =
                                    [r2 EXCEPT !.generations = @ + 1]], usage', req')
              /\ UNCHANGED last
      /\ UNCHANGED << srv, twin, wh, served, seqOnly >>

\* groq.chat.completions.create has settled: 200, or
\* `record.generations -= 1; usage[key] = record` and 500
P4_Settle(s, ok) ==
  LET r  == [req[s] EXCEPT !.charged = IF ok THEN @ ELSE @ - 1]
      h1 == [heap EXCEPT ![r.record].generations = @ - 1]
  IN  /\ last' = Response(r, IF ok THEN 200 ELSE 500)
      /\ req' = [req EXCEPT ![s] = IdleSlot]
      /\ usage' = IF ok THEN usage ELSE [usage EXCEPT ![r.key] = r.record]
      /\ heap' = Collect(IF ok THEN heap ELSE h1, usage', req')
      /\ UNCHANGED << srv, twin, wh, served, seqOnly >>

\* POST /generate, lines 101-137
P4_GenerateStart(s, email, complete, cg, recent, cap) ==
  /\ srv = "P4"
  /\ req[s].pc = "idle"
  /\ IF ~complete \/ email = << >>
     THEN Reject400(s, "generate")
     ELSE P4_Begin(s, "generate", email, cg, recent, cap)

\* POST /generate, lines 164-185
P4_GenerateCompleted(s, ok) ==
  /\ srv = "P4"
  /\ req[s].pc = "gen" /\ req[s].kind = "generate"
  /\ P4_Settle(s, ok)

\* POST /optimize, lines 189-225
P4_OptimizeStart(s, email, complete, cg, recent, cap) ==
  /\ srv = "P4"
  /\ req[s].pc = "idle"
  /\ IF ~complete \/ email = << >>
     THEN Reject400(s, "optimize")
     ELSE P4_Begin(s, "optimize", email, cg, recent, cap)

\* POST /optimize, lines 244-265
P4_OptimizeCompleted(s, ok) ==
  /\ srv = "P4"
  /\ req[s].pc = "gen" /\ req[s].kind = "optimize"
  /\ P4_Settle(s, ok)

\* POST /webhook, lines 75-78: the event is answered and nothing else
P4_Webhook ==
  /\ srv = "P4"
  /\ last' = [NoResponse EXCEPT !.kind = "webhook", !.status = 200]
  /\ UNCHANGED << srv, twin, usage, heap, req, wh, served, seqOnly >>

\* ------------------------------------------------ unnamed/part_000 (DOC)
\* `usage` is the User collection, keyed by the email as the schema stores it
\* (models/User.js: lowercase, trim), and a record is a document with
\* freeGenerations as generations and isPro as subscribed.  A handler works on
\* the copy of the document that findOne or create gave it.

\* the webhook has just answered, without an error, an upgrade event about
\* this email, and the collection holds no document of it
JustUpgraded(email) ==
  /\ last.status = 200 /\ ~last.failed
  /\ last.kind \in { "checkout.session.completed", "invoice.payment_succeeded" }
  /\ last.key = trim(toLowerCase(email))
  /\ usage[trim(toLowerCase(email))] = 0

\* POST /generate, lines 96-101: up to the await of User.findOne
DOC_GenerateStart(s, email, complete) ==
  /\ srv = "DOC"
  /\ req[s].pc = "idle"
  /\ IF ~complete \/ email = << >>
     THEN Reject400(s, "generate")
     ELSE /\ req' = [req EXCEPT ![s] = [IdleSlot EXCEPT !.pc = "find", !.kind = "generate",
                                          !.key = trim(toLowerCase(email)),
                                          !.isVip = isVipEmail(email),
                                          !.upgraded = JustUpgraded(email)]]
          /\ heap' = Collect(heap, usage, req')
          /\ UNCHANGED << srv, twin, usage, wh, last, served, seqOnly >>

\* POST /optimize, lines 175-180: up to the await of User.findOne
DOC_OptimizeStart(s, email, complete) ==
  /\ srv = "DOC"
  /\ req[s].pc = "idle"
  /\ IF ~complete \/ email = << >>
     THEN Reject400(s, "optimize")
     ELSE /\ req' = [req EXCEPT ![s] = [IdleSlot EXCEPT !.pc = "find", !.kind = "optimize",
                                          !.key = trim(toLowerCase(email)),
                                          !.isVip = isVipEmail(email),
                                          !.upgraded = JustUpgraded(email)]]
          /\ heap' = Collect(heap, usage, req')
          /\ UNCHANGED << srv, twin, usage, wh, last, served, seqOnly >>

\* lines 104-110 and 183-189: the handler holds the document doc; isPro, then
\* the limit, up to the 402 or to the call of groq.chat.completions.create
DOC_EnforceLimits(s, u, h, doc) ==
  LET o     == NewObj(u, req)
      isPro == doc.subscribed \/ req[s].isVip
      r     == [req[s] EXCEPT !.record = o, !.isPro = isPro]
  IN  /\ IF ~isPro /\ doc.generations >= FREE_TIER_LIMIT
         THEN /\ last' = Response(r, 402)
              /\ req' = [req EXCEPT ![s] = IdleSlot]
         ELSE /\ req' = [req EXCEPT ![s] = [r EXCEPT !.pc = "gen", !.checked = TRUE]]
              /\ UNCHANGED last
      /\ usage' = u
      /\ heap' = Collect([h EXCEPT ![o] = doc], usage', req')

\* User.findOne has settled, lines 101-102 and 180-181: with the document,
\* with null (up to the await of User.create) or with an error
DOC_FindOneSettled(s, ok, cap) ==
  /\ srv = "DOC"
  /\ req[s].pc = "find"
  /\ IF ~ok
     THEN /\ last' = Response(req[s], 500)
          /\ req' = [req EXCEPT ![s] = IdleSlot]
          /\ UNCHANGED << usage, heap >>
     ELSE IF usage[req[s].key] = 0
     THEN /\ req' = [req EXCEPT ![s].pc = "create"]
          /\ UNCHANGED << usage, heap, last >>
     ELSE /\ heap[usage[req[s].key]].generations < cap
          /\ DOC_EnforceLimits(s, usage, heap, heap[usage[req[s].key]])
  /\ UNCHANGED << srv, twin, wh, served, seqOnly >>

\* User.create has settled, lines 102 and 181: the unique index on email
\* rejects the second document of one email
DOC_CreateSettled(s, ok) ==
  LET o == NewObj(usage, req)
  IN  /\ srv = "DOC"
      /\ req[s].pc = "create"
      /\ IF ~ok \/ usage[req[s].key] # 0
         THEN /\ last' = Response(req[s], 500)
              /\ req' = [req EXCEPT ![s] = IdleSlot]
              /\ UNCHANGED << usage, heap >>
         ELSE DOC_EnforceLimits(s, [usage EXCEPT ![req[s].key] = o],
                                [heap EXCEPT ![o] = FreshObj], FreshObj)
      /\ UNCHANGED << srv, twin, wh, served, seqOnly >>

\* groq.chat.completions.create has settled, lines 148-171 and 204-227: 500,
\* 200 for a Pro or VIP user, or `user.freeGenerations += 1` up to the await
\* of user.save
DOC_GroqSettled(s, ok) ==
  /\ srv = "DOC"
  /\ req[s].pc = "gen"
  /\ IF ~ok \/ req[s].isPro
     THEN /\ last' = Response(req[s], IF ok THEN 200 ELSE 500)
          /\ req' = [req EXCEPT ![s] = IdleSlot]
          /\ heap' = Collect(heap, usage, req')
     ELSE /\ req' = [req EXCEPT ![s].pc = "save"]
          /\ heap' = [heap EXCEPT ![req[s].record].generations = @ + 1]
          /\ UNCHANGED last
  /\ UNCHANGED << srv, twin, usage, wh, served, seqOnly >>

\* user.save has settled, lines 163-171 and 219-227: the one modified path,
\* freeGenerations, is written to the stored document
DOC_SaveSettled(s, ok) ==
  LET r     == [req[s] EXCEPT !.charged = IF ok THEN @ + 1 ELSE @]
      saved == [heap EXCEPT ![usage[r.key]].generations = heap[r.record].generations]
  IN  /\ srv = "DOC"
      /\ req[s].pc = "save"
      /\ last' = Response(r, IF ok THEN 200 ELSE 500)
      /\ req' = [req EXCEPT ![s] = IdleSlot]
      /\ heap' = Collect(IF ok THEN saved ELSE heap, usage, req')
      /\ UNCHANGED << srv, twin, usage, wh, served, seqOnly >>

\* GET /check-subscription, lines 73-78: up to the await of User.findOne
DOC_CheckSubscriptionStart(s, email) ==
  /\ srv = "DOC"
  /\ req[s].pc = "idle"
  /\ IF email = << >>
     THEN /\ last' = [NoResponse EXCEPT !.kind = "check-subscription", !.status = 400]
          /\ UNCHANGED req
     ELSE /\ req' = [req EXCEPT ![s] = [IdleSlot EXCEPT !.pc = "qfind",
                                          !.kind = "check-subscription",
                                          !.key = trim(toLowerCase(email)),
                                          !.isVip = isVipEmail(email),
                                          !.upgraded = JustUpgraded(email)]]
          /\ UNCHANGED last
  /\ UNCHANGED << srv, twin, usage, heap, wh, served, seqOnly >>

\* GET /check-subscription, lines 78-92: User.findOne has settled, with the
\* document (and the response), with null (up to the await of User.create)
\* or with an error
DOC_CheckFindOneSettled(s, ok) ==
  /\ srv = "DOC"
  /\ req[s].pc = "qfind"
  /\ IF ok /\ usage[req[s].key] = 0
     THEN /\ req' = [req EXCEPT ![s].pc = "qcreate"]
          /\ UNCHANGED last
     ELSE /\ last' = Response(req[s], IF ok THEN 200 ELSE 500)
          /\ req' = [req EXCEPT ![s] = IdleSlot]
  /\ UNCHANGED << srv, twin, usage, heap, wh, served, seqOnly >>

\* GET /check-subscription, lines 79-92: User.create has settled; the
\* document is in the collection, unless the unique index rejected it
DOC_CheckCreateSettled(s, ok) ==
  LET o == NewObj(usage, req)
  IN  /\ srv = "DOC"
      /\ req[s].pc = "qcreate"
      /\ req' = [req EXCEPT ![s] = IdleSlot]
      /\ IF ~ok \/ usage[req[s].key] # 0
         THEN /\ last' = Response(req[s], 500)
              /\ UNCHANGED << usage, heap >>
         ELSE /\ last' = Response(req[s], 200)
              /\ usage' = [usage EXCEPT ![req[s].key] = o]
              /\ heap' = Collect([heap EXCEPT ![o] = FreshObj], usage', req')
      /\ UNCHANGED << srv, twin, wh, served, seqOnly >>

\* --------------------------------------------------------------- webhooks
EventTypes == { "checkout.session.completed", "invoice.payment_succeeded",
                "invoice.payment_failed", "customer.subscription.deleted" }

\* event.data.object over the emails E: the email sits in customer_email, in
\* metadata.user_email or nowhere; an invoice can name a subscription
Payloads(E) ==
  { [customer_email |-> e, metadata |-> FALSE, user_email |-> << >>, subscription |-> b]
      : e \in E \cup { << >> }, b \in BOOLEAN }
  \cup
  { [customer_email |-> << >>, metadata |-> TRUE, user_email |-> e, subscription |-> b]
      : e \in E \cup { << >> }, b \in BOOLEAN }

\* invoice.customer_email || (invoice.metadata ? invoice.metadata.user_email : null)
EventEmail(p) == IF p.customer_email # << >> THEN p.customer_email
                 ELSE IF p.metadata THEN p.user_email ELSE << >>

\* the activation marking the stored record subscribed without replacing it
ApplyActivated_KeepCount(u, h, rq, email) ==
  LET key == trim(toLowerCase(email))
      o   == NewObj(u, rq)
  IN  IF email = << >> THEN [usage |-> u, heap |-> h]
      ELSE IF u[key] = 0
      THEN [usage |-> [u EXCEPT ![key] = o],
            heap  |-> [h EXCEPT ![o] = [FreshObj EXCEPT !.subscribed = TRUE]]]
      ELSE [usage |-> u, heap |-> [h EXCEPT ![u[key]].subscribed = TRUE]]

\* if (email) { usage[key] = { generations: 0, subscribed: true } }
ApplyActivated(u, h, rq, email) ==
  LET key == trim(toLowerCase(email))
      o   == NewObj(u, rq)
  IN  IF email = << >> THEN [usage |-> u, heap |-> h]
      ELSE [usage |-> [u EXCEPT ![key] = o],
            heap  |-> [h EXCEPT ![o] = [FreshObj EXCEPT !.subscribed = TRUE]]]

\* the downgrade without the test of the VIP list
ApplyPaymentFailed_NoVipGuard(u, h, rq, email) ==
  IF email # << >>
  THEN LET g == getUserUsage(u, h, rq, email)
       IN  [usage |-> g.usage,
            heap  |-> [g.heap EXCEPT ![g.record].subscribed = FALSE,
                                     ![g.record].generations = 0]]
  ELSE [usage |-> u, heap |-> h]

\* the downgrade reaching every stored record
ApplyPaymentFailed_EveryRecord(u, h, rq, email) ==
  IF email # << >> /\ ~isVipEmail(email)
  THEN LET g == getUserUsage(u, h, rq, email)
       IN  [usage |-> g.usage,
            heap  |-> [o \in ObjIds |->
                         IF \E k \in Keys : g.usage[k] = o
                         THEN [g.heap[o] EXCEPT !.subscribed = FALSE, !.generations = 0]
                         ELSE g.heap[o]]]
  ELSE [usage |-> u, heap |-> h]

\* case 'invoice.payment_failed'
ApplyPaymentFailed(u, h, rq, email) ==
  IF email # << >> /\ ~isVipEmail(email)
  THEN LET g == getUserUsage(u, h, rq, email)
       IN  [usage |-> g.usage,
            heap  |-> [g.heap EXCEPT ![g.record].subscribed = FALSE,
                                     ![g.record].generations = 0]]
  ELSE [usage |-> u, heap |-> h]

\* an event reached the record of Identity(email)
Touched(email) ==
  IF email = << >> THEN UNCHANGED << served, seqOnly >> ELSE Reported(Identity(email))

\* res.json({ received: true }) to an event of this type about this email
WebhookResponse(type, email) ==
  [NoResponse EXCEPT !.kind = type, !.key = Identity(email), !.status = 200,
                     !.replay = /\ last.status = 200 /\ last.kind = type
                                /\ last.key = Identity(email),
                     !.after = /\ last.status = 402 /\ last.full
                               /\ last.key = Identity(email)]

\* the handler applying the activation of e before it answers 400
WebhookBadSignature_AfterHandling ==
  /\ wh.pc = "idle"
  /\ \E e \in RawEmails :
       /\ usage' = [usage EXCEPT ![trim(toLowerCase(e))] = NewObj(usage, req)]
       /\ heap' = [heap EXCEPT ![NewObj(usage, req)] = [FreshObj EXCEPT !.subscribed = TRUE]]
  /\ last' = [NoResponse EXCEPT !.kind = "webhook", !.status = 400]
  /\ UNCHANGED << srv, twin, req, wh, served, seqOnly >>

\* stripe.webhooks.constructEvent threw: res.status(400).send(...)
WebhookBadSignature ==
  /\ wh.pc = "idle"
  /\ last' = [NoResponse EXCEPT !.kind = "webhook", !.status = 400]
  /\ UNCHANGED << srv, twin, usage, heap, req, wh, served, seqOnly >>

\* the webhook handler writes a to the store
WebhookStore(email, a, touched) ==
  /\ usage' = a.usage
  /\ heap' = Collect(a.heap, usage', req)
  /\ IF touched THEN Touched(email) ELSE UNCHANGED << served, seqOnly >>
  /\ UNCHANGED << srv, twin, req >>

\* the webhook handler writes a to the store and answers 200
WebhookApply(type, email, a, touched) ==
  /\ WebhookStore(email, a, touched)
  /\ wh' = IdleWebhook
  /\ last' = WebhookResponse(type, email)

\* the store as it is
Untouched == [usage |-> usage, heap |-> heap]

\* S2 POST /webhook, lines 699-734 and 785-805: up to the await of
\* stripe.subscriptions.retrieve, or to the response when there is none
S2_Webhook(type, p) ==
  LET email == EventEmail(p)
  IN  /\ srv = "S2"
      /\ wh.pc = "idle"
      /\ CASE type = "invoice.payment_succeeded" /\ p.subscription ->
                /\ wh' = [IdleWebhook EXCEPT !.pc = "retrieve", !.type = type, !.email = email]
                /\ UNCHANGED << srv, twin, usage, heap, req, last, served, seqOnly >>
           [] type = "invoice.payment_succeeded" /\ ~p.subscription ->
                WebhookApply(type, email, ApplyActivated(usage, heap, req, email), TRUE)
           [] type = "invoice.payment_failed" ->
                WebhookApply(type, email, ApplyPaymentFailed(usage, heap, req, email),
                             ~isVipEmail(email))
           [] OTHER ->
                WebhookApply(type, email, Untouched, FALSE)

\* what the await of stripe.subscriptions.retrieve ends in: an error (caught
\* at line 732), a subscription without referred_by_email, or one with it
RetrieveOutcomes == { "error", "noReferrer", "referrer" }

\* the handler ending at the catch of stripe.subscriptions.retrieve with the
\* response, the store not written
S2_WebhookRetrieved_ErrorSkipsUpdate(out) ==
  LET a == ApplyActivated(usage, heap, req, wh.email)
  IN  /\ srv = "S2"
      /\ wh.pc = "retrieve"
      /\ IF out = "referrer" /\ wh.email # << >>
         THEN /\ WebhookStore(wh.email, a, TRUE)
              /\ wh' = [wh EXCEPT !.pc = "affiliate"]
              /\ UNCHANGED last
         ELSE /\ WebhookStore(wh.email, IF out = "error" THEN Untouched ELSE a,
                              out # "error")
              /\ wh' = IdleWebhook
              /\ last' = [WebhookResponse(wh.type, wh.email) EXCEPT
                            !.failed = out = "error"]

\* S2 POST /webhook, lines 729-746 and 804: stripe.subscriptions.retrieve has
\* settled; the store is written, then comes the response or, for a
\* referrer, the await of getAffiliateStripeId
S2_WebhookRetrieved(out) ==
  LET a == ApplyActivated(usage, heap, req, wh.email)
  IN  /\ srv = "S2"
      /\ wh.pc = "retrieve"
      /\ IF out = "referrer" /\ wh.email # << >>
         THEN /\ WebhookStore(wh.email, a, TRUE)
              /\ wh' = [wh EXCEPT !.pc = "affiliate"]
              /\ UNCHANGED last
         ELSE /\ WebhookStore(wh.email, a, TRUE)
              /\ wh' = IdleWebhook
              /\ last' = [WebhookResponse(wh.type, wh.email) EXCEPT
                            !.failed = out = "error"]

\* what getAffiliateStripeId, lines 395-425, ends in: stripe.accounts.list
\* threw (null), no account of the referrer (null), an account with a
\* commission of 50 cents or less, an account with a commission to transfer
AffiliateOutcomes == { "error", "unknown", "tooLow", "transfer" }

\* S2 POST /webhook, lines 746-757, 776-783 and 804: getAffiliateStripeId has
\* settled; then comes the response or the await of stripe.transfers.create
S2_WebhookAffiliateSettled(out) ==
  /\ srv = "S2"
  /\ wh.pc = "affiliate"
  /\ IF out = "transfer"
     THEN /\ wh' = [wh EXCEPT !.pc = "transfer"]
          /\ UNCHANGED last
     ELSE /\ wh' = IdleWebhook
          /\ last' = [WebhookResponse(wh.type, wh.email) EXCEPT !.failed = out = "error"]
  /\ UNCHANGED << srv, twin, usage, heap, req, served, seqOnly >>

\* S2 POST /webhook, lines 757-775 and 804: stripe.transfers.create has
\* settled (its error is caught at line 771), only the response is left
S2_WebhookTransferSettled(ok) ==
  /\ srv = "S2"
  /\ wh.pc = "transfer"
  /\ wh' = IdleWebhook
  /\ last' = [WebhookResponse(wh.type, wh.email) EXCEPT !.failed = ~ok]
  /\ UNCHANGED << srv, twin, usage, heap, req, served, seqOnly >>

\* S1 POST /webhook, lines 278-306
S1_Webhook(type, p) ==
  LET email == p.customer_email
  IN  /\ srv = "S1"
      /\ wh.pc = "idle"
      /\ IF type = "checkout.session.completed"
         THEN WebhookApply(type, email, ApplyActivated(usage, heap, req, email), TRUE)
         ELSE WebhookApply(type, email, Untouched, FALSE)

\* P1 POST /webhook, part_001 lines 221-247
P1_Webhook(type, p) ==
  LET email == p.customer_email
  IN  /\ srv = "P1"
      /\ wh.pc = "idle"
      /\ IF type = "checkout.session.completed"
         THEN WebhookApply(type, email, ApplyActivated(usage, heap, req, email), TRUE)
         ELSE WebhookApply(type, email, Untouched, FALSE)

\* P2: usage[email.toLowerCase()] = { generations: 0, subscribed: true },
\* part_002 lines 344-345
P2_ApplyActivated(u, h, rq, email) ==
  LET key == toLowerCase(email)
      o   == NewObj(u, rq)
  IN  IF email = << >> THEN [usage |-> u, heap |-> h]
      ELSE [usage |-> [u EXCEPT ![key] = o],
            heap  |-> [h EXCEPT ![o] = [FreshObj EXCEPT !.subscribed = TRUE]]]

\* P2 POST /webhook, part_002 lines 332-350, past constructEvent
P2_Webhook(type, p) ==
  LET email == p.customer_email
  IN  /\ srv = "P2"
      /\ wh.pc = "idle"
      /\ IF type = "checkout.session.completed"
         THEN WebhookApply(type, email, P2_ApplyActivated(usage, heap, req, email), TRUE)
         ELSE WebhookApply(type, email, Untouched, FALSE)

\* ------------------------- unnamed/part_001, second server (P1B): webhook
P1B_EventTypes == EventTypes \cup { "invoice.paid" }

\* event.data.object as P1B reads it, over the emails E: customer_details
\* and metadata are objects or missing, the email sits in
\* customer_details.email, in metadata.user_email, in customer_email or
\* nowhere; commission tells that amount_paid > 0 and that the referrals
\* table names a referrer with a Connect account
SessionPayloads(E) ==
  { [customer_details |-> d, metadata |-> m,
     details_email  |-> IF d /\ at = "details" THEN e ELSE << >>,
     user_email     |-> IF m /\ at = "metadata" THEN e ELSE << >>,
     customer_email |-> IF at = "object" THEN e ELSE << >>,
     commission     |-> c]
      : d \in BOOLEAN, m \in BOOLEAN, c \in BOOLEAN, e \in E \cup { << >> },
        at \in { "details", "metadata", "object" } }

\* what becomes of a request whose async handler threw: Express 4 leaves it
\* unanswered, and the unhandled rejection ends the process (whose usage map
\* is lost) or is only reported, depending on the Node.js version; Express 5
\* answers 500
ThrowOutcomes == { "unanswered", "exit", "500" }

\* the handler of an event of this type threw; a request left unanswered is
\* recorded in last with status 0
WebhookThrows(type, outcome) ==
  /\ wh' = IdleWebhook
  /\ last' = [NoResponse EXCEPT !.kind = type,
                                !.status = IF outcome = "500" THEN 500 ELSE 0]
  /\ IF outcome = "exit"
     THEN /\ usage' = [k \in Keys |-> 0]
          /\ heap' = [o \in ObjIds |-> FreshObj]
          /\ req' = [s \in Slots |-> IdleSlot]
     ELSE UNCHANGED << usage, heap, req >>
  /\ UNCHANGED << srv, twin, served, seqOnly >>

\* P1B POST /webhook, part_001 lines 505-604: up to the await of
\* stripe.transfers.create, to the response, or to the TypeError of
\* `session.customer_details.email` and `session.metadata.referral_code`
P1B_Webhook(type, p, outcome) ==
  LET customerEmail == IF p.details_email # << >> THEN p.details_email ELSE p.user_email
      email == IF p.customer_email # << >> THEN p.customer_email
               ELSE IF p.metadata THEN p.user_email ELSE << >>
      transfer == p.customer_email # << >> /\ p.commission
  IN  /\ srv = "P1B"
      /\ wh.pc = "idle"
      /\ CASE type = "checkout.session.completed" /\ ~(p.customer_details /\ p.metadata) ->
                WebhookThrows(type, outcome)
           [] type = "checkout.session.completed" /\ p.customer_details /\ p.metadata ->
                IF transfer
                THEN /\ WebhookStore(customerEmail,
                                     ApplyActivated(usage, heap, req, customerEmail), TRUE)
                     /\ wh' = [IdleWebhook EXCEPT !.pc = "transfer", !.type = type,
                                                  !.email = customerEmail]
                     /\ UNCHANGED last
                ELSE WebhookApply(type, customerEmail,
                                  ApplyActivated(usage, heap, req, customerEmail), TRUE)
           [] type = "invoice.paid" ->
                IF transfer
                THEN /\ wh' = [IdleWebhook EXCEPT !.pc = "transfer", !.type = type,
                                                  !.email = p.customer_email]
                     /\ UNCHANGED << srv, twin, usage, heap, req, last, served, seqOnly >>
                ELSE WebhookApply(type, p.customer_email, Untouched, FALSE)
           [] type = "invoice.payment_failed" ->
                WebhookApply(type, email, ApplyPaymentFailed(usage, heap, req, email),
                             ~isVipEmail(email))
           [] OTHER ->
                WebhookApply(type, email, Untouched, FALSE)

\* P1B POST /webhook, part_001 lines 554-569 and 603: stripe.transfers.create
\* has settled (its error is caught), only the response is left
P1B_WebhookTransferred ==
  /\ srv = "P1B"
  /\ wh.pc = "transfer"
  /\ wh' = IdleWebhook
  /\ last' = WebhookResponse(wh.type, wh.email)
  /\ UNCHANGED << srv, twin, usage, heap, req, served, seqOnly >>

\* P1B refreshStripeSubscriptionStatus, part_001 lines 350-370: "true" or
\* "false", the catch block returns false
P1B_refreshStripeSubscriptionStatus(ans) ==
  CASE ans = "customersError"       -> "false"
    [] ans = "noCustomer"           -> "false"
    [] ans = "subscriptionsError"   -> "false"
    [] ans = "noActiveSubscription" -> "false"
    [] ans = "activeSubscription"   -> "true"

\* P1B GET /check-subscription, part_001 lines 447-455: the verifier is
\* awaited for every email and reads nothing of the store
P1B_CheckSubscription(email, ans) ==
  /\ srv = "P1B"
  /\ last' = IF email = << >>
             THEN [NoResponse EXCEPT !.kind = "check-subscription", !.status = 400]
             ELSE [NoResponse EXCEPT !.kind = "check-subscription", !.status = 200,
                                     !.key = trim(toLowerCase(email)),
                                     !.isVip = isVipEmail(email),
                                     !.threw = Threw(ans),
                                     !.ans = ans,
                                     !.vres = P1B_refreshStripeSubscriptionStatus(ans)]
  /\ UNCHANGED << srv, twin, usage, heap, req, wh, served, seqOnly >>

\* P1B POST /generate, part_001 lines 412-428: the fields are checked, then
\* comes the call of groq.chat.completions.create; the handler reads no
\* record and has no free-tier test
P1B_GenerateStart(s, email, complete) ==
  /\ srv = "P1B"
  /\ req[s].pc = "idle"
  /\ IF ~complete \/ email = << >>
     THEN Reject400(s, "generate")
     ELSE /\ req' = [req EXCEPT ![s] = [IdleSlot EXCEPT !.pc = "gen", !.kind = "generate",
                                          !.key = trim(toLowerCase(email))]]
          /\ UNCHANGED << srv, twin, usage, heap, wh, last, served, seqOnly >>

\* P1B POST /generate, part_001 lines 428-445: groq.chat.completions.create
\* has settled; past it `record.subscribed` names no variable and the
\* ReferenceError is caught, so that the answer is 500 either way
P1B_GenerateCompleted(s, ok) ==
  /\ srv = "P1B"
  /\ req[s].pc = "gen"
  /\ last' = Response(req[s], 500)
  /\ req' = [req EXCEPT ![s] = IdleSlot]
  /\ UNCHANGED << srv, twin, usage, heap, wh, served, seqOnly >>

\* P3 POST /webhook, part_003 lines 364-412 and 445-463: up to the await of
\* stripe.subscriptions.retrieve, which comes after the store was written, or
\* to the response when there is none
P3_Webhook(type, p) ==
  LET email == EventEmail(p)
      a     == ApplyActivated(usage, heap, req, email)
  IN  /\ srv = "P3"
      /\ wh.pc = "idle"
      /\ CASE type = "checkout.session.completed" ->
                WebhookApply(type, email, a, TRUE)
           [] type = "invoice.payment_succeeded" /\ ~p.subscription ->
                WebhookApply(type, email, a, TRUE)
           [] type = "invoice.payment_succeeded" /\ p.subscription ->
                /\ WebhookStore(email, a, TRUE)
                /\ wh' = [IdleWebhook EXCEPT !.pc = "retrieve", !.type = type, !.email = email]
                /\ UNCHANGED last
           [] type = "invoice.payment_failed" ->
                WebhookApply(type, email, ApplyPaymentFailed(usage, heap, req, email),
                             ~isVipEmail(email))
           [] OTHER ->
                WebhookApply(type, email, Untouched, FALSE)

\* P3 POST /webhook, part_003 lines 412-443 and 463: the referral commission
\* has settled, stripe.subscriptions.retrieve and stripe.transfers.create
\* without error or with one (caught at line 441); only the response is left
P3_WebhookRetrieved(ok) ==
  /\ srv = "P3"
  /\ wh.pc = "retrieve"
  /\ wh' = IdleWebhook
  /\ last' = [WebhookResponse(wh.type, wh.email) EXCEPT !.failed = ~ok]
  /\ UNCHANGED << srv, twin, usage, heap, req, served, seqOnly >>

\* DOC POST /webhook, lines 231-261 and 266: up to the await of
\* User.findOneAndUpdate, or to the response when nothing is updated
DOC_Webhook(type, p) ==
  LET email   == EventEmail(p)
      upgrade == type \in { "checkout.session.completed", "invoice.payment_succeeded" }
  IN  /\ srv = "DOC"
      /\ wh.pc = "idle"
      /\ IF email # << >> /\ (upgrade \/ ~isVipEmail(email))
         THEN /\ wh' = [IdleWebhook EXCEPT !.pc = "update", !.type = type, !.email = email]
              /\ UNCHANGED << srv, twin, usage, heap, req, last, served, seqOnly >>
         ELSE WebhookApply(type, email, Untouched, FALSE)

\* DOC POST /webhook, lines 248, 257 and 262-266: User.findOneAndUpdate has
\* settled; it updates the document of the email when there is one, and an
\* error is caught and logged
DOC_WebhookUpdated(ok) ==
  LET key     == trim(toLowerCase(wh.email))
      upgrade == wh.type \in { "checkout.session.completed", "invoice.payment_succeeded" }
  IN  /\ srv = "DOC"
      /\ wh.pc = "update"
      /\ IF ok /\ usage[key] # 0
         THEN WebhookApply(wh.type, wh.email,
                           [usage |-> usage,
                            heap  |-> [heap EXCEPT ![usage[key]].subscribed = upgrade]],
                           TRUE)
         ELSE /\ WebhookStore(wh.email, Untouched, FALSE)
              /\ wh' = IdleWebhook
              /\ last' = [WebhookResponse(wh.type, wh.email) EXCEPT !.failed = ~ok]

\* ------------------------------------- the two backends, one request at a time
\* server.js, second server: POST /generate, lines 556-628, from the request
\* to its response with nothing else in between, on the record rec0 of the
\* email (NoRecord when it has none): the record after it and the status
Mem_Generate(rec0, email, ans, ok) ==
  LET rec == IF rec0 = NoRecord
             THEN [FreshObj EXCEPT !.subscribed = isVipEmail(email)]
             ELSE rec0
      r1  == SubscriptionLogic(rec, isVipEmail(email),
                               refreshStripeSubscriptionStatus(ans))
  IN  IF QuotaExceeded(r1) THEN [record |-> r1, status |-> 402]
      ELSE IF ok THEN [record |-> [r1 EXCEPT !.generations = @ + 1], status |-> 200]
      ELSE [record |-> r1, status |-> 500]

\* server.js, second server: POST /webhook, lines 717-741 and 785-804, for a
\* signed event about the email
Mem_Event(rec0, email, type) ==
  LET rec == IF rec0 = NoRecord
             THEN [FreshObj EXCEPT !.subscribed = isVipEmail(email)]
             ELSE rec0
  IN  CASE type = "invoice.payment_succeeded" -> [FreshObj EXCEPT !.subscribed = TRUE]
        [] type = "invoice.payment_failed" /\ ~isVipEmail(email) ->
             [rec EXCEPT !.subscribed = FALSE, !.generations = 0]
        [] OTHER -> rec0

\* part_000: POST /generate, lines 96-172, from the request to its response
\* with nothing else in between and no database error, on the document doc0
\* of the email (NoRecord when it has none): the document after it and the
\* status; Stripe is not asked
Doc_Generate(doc0, email, ok) ==
  LET doc   == IF doc0 = NoRecord THEN FreshObj ELSE doc0
      isPro == doc.subscribed \/ isVipEmail(email)
  IN  IF ~isPro /\ doc.generations >= FREE_TIER_LIMIT
      THEN [record |-> doc, status |-> 402]
      ELSE IF ~ok THEN [record |-> doc, status |-> 500]
      ELSE IF isPro THEN [record |-> doc, status |-> 200]
      ELSE [record |-> [doc EXCEPT !.generations = @ + 1], status |-> 200]

\* part_000: POST /webhook, lines 231-267, for a signed event about the email
Doc_Event(doc0, email, type) ==
  CASE type \in { "checkout.session.completed", "invoice.payment_succeeded" } ->
         IF doc0 = NoRecord THEN NoRecord ELSE [doc0 EXCEPT !.subscribed = TRUE]
    [] type \in { "customer.subscription.deleted", "invoice.payment_failed" }
         /\ ~isVipEmail(email) ->
         IF doc0 = NoRecord THEN NoRecord ELSE [doc0 EXCEPT !.subscribed = FALSE]
    [] OTHER -> doc0

\* a client chooses the identity that both servers will be asked about
TwinChoose(email) ==
  /\ twin = NoTwin
  /\ twin' = [NoTwin EXCEPT !.email = email]
  /\ UNCHANGED << srv, usage, heap, req, wh, last, served, seqOnly >>

\* both servers get the same /generate request, the same answer of Stripe
\* and the same outcome of the generation call
TwinGenerate(ans, ok, cap) ==
  LET m == Mem_Generate(twin.mem, twin.email, ans, ok)
      d == Doc_Generate(twin.doc, twin.email, ok)
  IN  /\ twin.email # << >>
      /\ twin.mem.generations < cap /\ twin.doc.generations < cap
      /\ twin' = [twin EXCEPT !.mem = m.record, !.memStatus = m.status,
                              !.doc = d.record, !.docStatus = d.status]
      /\ UNCHANGED << srv, usage, heap, req, wh, last, served, seqOnly >>

\* both servers get the same signed event about the identity
TwinEvent(type) ==
  /\ twin.email # << >>
  /\ twin' = [twin EXCEPT !.mem = Mem_Event(twin.mem, twin.email, type),
                          !.memStatus = 200,
                          !.doc = Doc_Event(twin.doc, twin.email, type),
                          !.docStatus = 200]
  /\ UNCHANGED << srv, usage, heap, req, wh, last, served, seqOnly >>

\* ---------------------------------------------------------- specifications
\* the spellings of the identity outside the VIP list
FreeEmails == { e \in RawEmails : Identity(e) \notin vipEmails }

\* the spellings of the identity on the VIP list
VipSpellings == { e \in RawEmails : Identity(e) \in vipEmails }

\* the request handlers of S1 and S2 in the slots S for clients using the
\* emails E
NextRequests(S, E, cap) ==
  \/ \E s \in S, e \in E \cup { << >> }, c \in BOOLEAN : S2_GenerateStart(s, e, c, cap)
  \/ \E s \in S, a \in StripeAnswers : S2_GenerateVerified(s, a)
  \/ \E s \in S, ok \in BOOLEAN : S2_GenerateCompleted(s, ok)
  \/ \E s \in S, e \in E \cup { << >> }, c \in BOOLEAN : S2_OptimizeStart(s, e, c, cap)
  \/ \E s \in S, a \in StripeAnswers : S2_OptimizeVerified(s, a)
  \/ \E s \in S, ok \in BOOLEAN : S2_OptimizeCompleted(s, ok)
  \/ \E s \in S, e \in E \cup { << >> }, c \in BOOLEAN : S1_GenerateStart(s, e, c, cap)
  \/ \E s \in S, a \in StripeAnswers : S1_GenerateVerified(s, a)
  \/ \E s \in S, ok \in BOOLEAN : S1_GenerateCompleted(s, ok)
  \/ \E s \in S, e \in E \cup { << >> }, c \in BOOLEAN : S1_OptimizeStart(s, e, c, cap)
  \/ \E s \in S, a \in StripeAnswers : S1_OptimizeVerified(s, a)
  \/ \E s \in S, ok \in BOOLEAN : S1_OptimizeCompleted(s, ok)

\* the webhook handlers of S1 and S2 for events about the emails E
NextWebhooks(E) ==
  \/ \E t \in EventTypes, p \in Payloads(E) : S2_Webhook(t, p)
  \/ \E o \in RetrieveOutcomes : S2_WebhookRetrieved(o)
  \/ \E o \in AffiliateOutcomes : S2_WebhookAffiliateSettled(o)
  \/ \E ok \in BOOLEAN : S2_WebhookTransferSettled(ok)
  \/ \E t \in EventTypes, p \in Payloads(E) : S1_Webhook(t, p)
  \/ \E t \in EventTypes, p \in Payloads(E) : P3_Webhook(t, p)
  \/ \E ok \in BOOLEAN : P3_WebhookRetrieved(ok)
  \/ WebhookBadSignature

\* the request handlers of DOC up to their response or to the await of
\* user.save, which a Pro or VIP user never reaches
DocRequests(S, E, cap) ==
  \/ \E s \in S, e \in E \cup { << >> }, c \in BOOLEAN : DOC_GenerateStart(s, e, c)
  \/ \E s \in S, e \in E \cup { << >> }, c \in BOOLEAN : DOC_OptimizeStart(s, e, c)
  \/ \E s \in S, ok \in BOOLEAN : DOC_FindOneSettled(s, ok, cap)
  \/ \E s \in S, ok \in BOOLEAN : DOC_CreateSettled(s, ok)
  \/ \E s \in S, ok \in BOOLEAN : DOC_GroqSettled(s, ok)

\* the webhook of DOC
DocWebhooks(E) ==
  \/ \E t \in EventTypes, p \in Payloads(E) : DOC_Webhook(t, p)
  \/ \E ok \in BOOLEAN : DOC_WebhookUpdated(ok)

\* the request handlers of P2
NextP2(S, E, cap) ==
  \/ \E s \in S, e \in E \cup { << >> }, c \in BOOLEAN : P2_GenerateStart(s, e, c, cap)
  \/ \E s \in S, a \in StripeAnswers : P2_GenerateVerified(s, a)
  \/ \E s \in S, ok \in BOOLEAN : P2_GenerateCompleted(s, ok)
  \/ \E s \in S, e \in E \cup { << >> }, c \in BOOLEAN : P2_BoostStart(s, e, c, cap)
  \/ \E s \in S, a \in StripeAnswers : P2_BoostVerified(s, a)
  \/ \E s \in S, ok \in BOOLEAN : P2_BoostCompleted(s, ok)

\* the handlers of P4
NextP4(S, E, cap) ==
  \/ \E e \in E \cup { << >> }, n \in BOOLEAN : P4_CheckSubscription(e, n)
  \/ \E s \in S, e \in E \cup { << >> }, c, n \in BOOLEAN, cg \in ClientCounts :
       P4_GenerateStart(s, e, c, cg, n, cap)
  \/ \E s \in S, ok \in BOOLEAN : P4_GenerateCompleted(s, ok)
  \/ \E s \in S, e \in E \cup { << >> }, c, n \in BOOLEAN, cg \in ClientCounts :
       P4_OptimizeStart(s, e, c, cg, n, cap)
  \/ \E s \in S, ok \in BOOLEAN : P4_OptimizeCompleted(s, ok)
  \/ P4_Webhook

InitFree == srv \in { "S1", "S2", "P2" } /\ InitStore

InitMem == srv \in { "S1", "S2", "P3" } /\ InitStore

InitP4 == srv = "P4" /\ InitStore

NextFree == NextRequests(Slots, FreeEmails, MaxCount) \/ NextP2(Slots, FreeEmails, MaxCount)

InitDoc == srv = "DOC" /\ InitStore

\* the entitlement query of DOC
DocQueries(S, E) ==
  \/ \E s \in S, e \in E \cup { << >> } : DOC_CheckSubscriptionStart(s, e)
  \/ \E s \in S, ok \in BOOLEAN : DOC_CheckFindOneSettled(s, ok)
  \/ \E s \in S, ok \in BOOLEAN : DOC_CheckCreateSettled(s, ok)

NextDocFree ==
  \/ DocRequests(Slots, FreeEmails, MaxCount)
  \/ \E s \in Slots, ok \in BOOLEAN : DOC_SaveSettled(s, ok)
  \/ DocQueries(Slots, FreeEmails)

\* DOC serving the identity outside the VIP list up to its quota
SpecDocFree == InitDoc /\ [][NextDocFree]_vars

NextDocBilling ==
  \/ DocRequests({1}, FreeEmails, MaxCount)
  \/ \E ok \in BOOLEAN : DOC_SaveSettled(1, ok)
  \/ DocQueries({1}, FreeEmails)
  \/ DocWebhooks(FreeEmails)
  \/ WebhookBadSignature

\* DOC serving, one request at a time, the identity outside the VIP list up
\* to its quota, with billing events
SpecDocBilling == InitDoc /\ [][NextDocBilling]_vars

\* P4 serving the identity on the VIP list
SpecP4 == InitP4 /\ [][NextP4(Slots, VipSpellings, MaxCount)]_vars

\* S1, S2 and P2 serving the identity outside the VIP list up to its quota
SpecFree == InitFree /\ [][NextFree]_vars

InitVip == srv \in { "S1", "S2", "P3", "DOC" } /\ InitStore

NextVip ==
  \/ NextRequests({1}, VipSpellings, MaxCount)
  \/ NextWebhooks(VipSpellings)
  \/ DocRequests({1}, VipSpellings, MaxCount)
  \/ DocWebhooks(VipSpellings)

\* S1, S2, P3 and DOC serving the identity on the VIP list, with billing
\* events
SpecVip == InitVip /\ [][NextVip]_vars

NextBilling == NextRequests({1}, FreeEmails, SmallCount) \/ NextWebhooks(FreeEmails)

\* S1, S2 and P3 serving the identity outside the VIP list, with billing
\* events
SpecBilling == InitMem /\ [][NextBilling]_vars

\* the request handlers of S2 alone
S2Requests(S, E, cap) ==
  \/ \E s \in S, e \in E \cup { << >> }, c \in BOOLEAN : S2_GenerateStart(s, e, c, cap)
  \/ \E s \in S, a \in StripeAnswers : S2_GenerateVerified(s, a)
  \/ \E s \in S, ok \in BOOLEAN : S2_GenerateCompleted(s, ok)
  \/ \E s \in S, e \in E \cup { << >> }, c \in BOOLEAN : S2_OptimizeStart(s, e, c, cap)
  \/ \E s \in S, a \in StripeAnswers : S2_OptimizeVerified(s, a)
  \/ \E s \in S, ok \in BOOLEAN : S2_OptimizeCompleted(s, ok)

\* the webhook of S2 alone
S2Webhooks(E) ==
  \/ \E t \in EventTypes, p \in Payloads(E) : S2_Webhook(t, p)
  \/ \E o \in RetrieveOutcomes : S2_WebhookRetrieved(o)
  \/ \E o \in AffiliateOutcomes : S2_WebhookAffiliateSettled(o)
  \/ \E ok \in BOOLEAN : S2_WebhookTransferSettled(ok)
  \/ WebhookBadSignature

InitS2 == srv = "S2" /\ InitStore

InitP1 == srv = "P1" /\ InitStore

InitFirst == srv = "S1" /\ InitStore

\* one spelling of each identity
LazyEmails == { <<" ", "U">>, <<"V", " ">> }

NextLazy == S2Requests({1}, LazyEmails, SmallCount)

\* S2 serving both identities, one request at a time
SpecLazy == InitS2 /\ [][NextLazy]_vars

NextLive ==
  \/ S2Requests(Slots, FreeEmails, SmallCount)
  \/ \E s \in Slots : VerifierNeverReturns(s)

\* the event loop resumes a handler whose awaited promise has settled
HandlersResume ==
  \A s \in Slots :
    /\ WF_vars(\E a \in StripeAnswers : S2_GenerateVerified(s, a))
    /\ WF_vars(\E ok \in BOOLEAN : S2_GenerateCompleted(s, ok))
    /\ WF_vars(\E a \in StripeAnswers : S2_OptimizeVerified(s, a))
    /\ WF_vars(\E ok \in BOOLEAN : S2_OptimizeCompleted(s, ok))

\* S2 serving requests whose Stripe calls answer, throw or never return
SpecLive == InitS2 /\ [][NextLive]_vars /\ HandlersResume

InitP1B == srv = "P1B" /\ InitStore

\* the handlers of P1B
NextP1B(S, E) ==
  \/ \E s \in S, e \in E \cup { << >> }, c \in BOOLEAN : P1B_GenerateStart(s, e, c)
  \/ \E s \in S, ok \in BOOLEAN : P1B_GenerateCompleted(s, ok)
  \/ \E t \in P1B_EventTypes, p \in SessionPayloads(E), o \in ThrowOutcomes :
       P1B_Webhook(t, p, o)
  \/ P1B_WebhookTransferred
  \/ WebhookBadSignature
  \/ \E e \in E \cup { << >> }, a \in StripeAnswers : P1B_CheckSubscription(e, a)

\* P1B with billing events about both identities
SpecP1B == InitP1B /\ [][NextP1B({1}, RawEmails)]_vars

InitSigned == srv \in { "S2", "P2" } /\ InitStore

NextSigned ==
  \/ S2Requests({1}, FreeEmails, SmallCount)
  \/ S2Webhooks(FreeEmails)
  \/ NextP2({1}, FreeEmails, SmallCount)
  \/ \E t \in EventTypes, p \in Payloads(FreeEmails) : P2_Webhook(t, p)
  \/ \E e \in FreeEmails \cup { << >> }, a \in StripeAnswers : S2_CheckSubscription(e, a)

\* S2 and P2 serving the identity outside the VIP list, with billing events
\* of good and bad signature
SpecSigned == InitSigned /\ [][NextSigned]_vars

\* the handlers of P1
NextP1(S, E, cap) ==
  \/ \E s \in S, e \in E \cup { << >> }, c \in BOOLEAN : P1_GenerateStart(s, e, c, cap)
  \/ \E s \in S, a \in StripeAnswers : P1_GenerateVerified(s, a)
  \/ \E s \in S, e \in E \cup { << >> }, c \in BOOLEAN : P1_OptimizeStart(s, e, c)
  \/ \E s \in S, ok \in BOOLEAN : P1_Completed(s, ok)
  \/ \E t \in EventTypes, p \in Payloads(E) : P1_Webhook(t, p)
  \/ WebhookBadSignature

\* P1 serving, one request at a time, the identity outside the VIP list up
\* to its quota, with billing events
SpecP1 == InitP1 /\ [][NextP1({1}, FreeEmails, MaxCount)]_vars

NextEndToEnd == S2Requests({1}, FreeEmails, MaxCount) \/ S2Webhooks(FreeEmails)

\* S2 serving, one request at a time, the identity outside the VIP list up
\* to its quota, with billing events
SpecEndToEnd == InitS2 /\ [][NextEndToEnd]_vars

\* no request of SpecPair is started for a record whose count is PairCount
PairCount == 1

\* the events S2 handles without an await: an invoice of one of the two
\* types of its switch that names no subscription, its email in customer_email
PairEvents ==
  { [type |-> t, payload |-> p] :
      t \in { "invoice.payment_succeeded", "invoice.payment_failed" },
      p \in { q \in Payloads(LazyEmails) :
                ~q.subscription /\ ~q.metadata /\ q.customer_email # << >> } }

NextPair ==
  \/ S2_GenerateStart(1, <<" ", "U">>, TRUE, PairCount)
  \/ S2_GenerateStart(2, <<"V", " ">>, TRUE, PairCount)
  \/ \E s \in { 1, 2 }, a \in StripeAnswers : S2_GenerateVerified(s, a)
  \/ \E s \in { 1, 2 }, ok \in BOOLEAN : S2_GenerateCompleted(s, ok)
  \/ \E e \in PairEvents : S2_Webhook(e.type, e.payload)

\* S2 serving one client of each identity, their requests overlapping each
\* other and billing events about either
SpecPair == InitS2 /\ [][NextPair]_vars

\* the handlers of S1 for one client whose /generate requests overlap its
\* /optimize requests, while Stripe never lists an active subscription and
\* checkout.session.completed events name its email
NextFirst ==
  \/ S1_GenerateStart(1, <<"u">>, TRUE, MaxCount)
  \/ \E a \in StripeAnswers \ { "activeSubscription" } : S1_GenerateVerified(1, a)
  \/ \E ok \in BOOLEAN : S1_GenerateCompleted(1, ok)
  \/ S1_OptimizeStart(2, <<"u">>, TRUE, MaxCount)
  \/ \E a \in StripeAnswers \ { "activeSubscription" } : S1_OptimizeVerified(2, a)
  \/ \E ok \in BOOLEAN : S1_OptimizeCompleted(2, ok)
  \/ \E b \in BOOLEAN :
       S1_Webhook("checkout.session.completed",
                  [customer_email |-> <<"u">>, metadata |-> FALSE,
                   user_email |-> << >>, subscription |-> b])

\* S1 serving the identity outside the VIP list, which the verifier never
\* reports subscribed, with overlapping requests and activation events
SpecFirst == InitFirst /\ [][NextFirst]_vars

NextTwin ==
  \/ \E e \in FreeEmails : TwinChoose(e)
  \/ \E a \in StripeAnswers, ok \in BOOLEAN : TwinGenerate(a, ok, MaxCount)
  \/ \E t \in EventTypes : TwinEvent(t)

\* the second server of server.js and part_000 given the same requests,
\* answers and events about one identity, one after the other
SpecTwin == InitS2 /\ [][NextTwin]_vars

\* ------------------------------------------------------------- properties
TypeOK ==
  /\ srv \in Servers
  /\ \A k \in Keys : usage[k] \in ObjIds \cup {0}
  /\ \A o \in ObjIds : heap[o].generations \in -(Over + NumSlots)..(MaxCount + NumSlots)
  /\ \A i \in Identities : served[i] \in -1..(MaxCount + NumSlots)
  /\ \A s \in Slots : req[s].record \in ObjIds \cup {0}

C2_NeverMoreThanFreeLimit ==
  \A i \in Identities \ vipEmails :
    served[i] # -1 =>
      /\ served[i] <= FREE_TIER_LIMIT
      /\ usage[i] # 0 => heap[usage[i]].generations <= FREE_TIER_LIMIT

\* C3: a /generate or /optimize request of an identity on the VIP list is
\* never answered 402, whatever its count, the events before it and the
\* verifier's answer.
C3_VipNeverDenied == last.status = 402 => last.key \notin vipEmails

C3_Witness ==
  \E s \in Slots :
    /\ req[s].pc = "gen" /\ req[s].key \in vipEmails /\ req[s].vres = "false"
    /\ heap[req[s].record].generations >= FREE_TIER_LIMIT

\* C4: a /generate request that the gate allowed and whose generation call
\* failed is answered 500 and has not charged the identity's count.
C4_FailureNotCharged ==
  (last.kind = "generate" /\ last.status = 500) => last.charged = 0

\* C5: a /generate request whose verifier call threw, for an identity outside
\* the VIP list whose record was subscribed, is not answered 402.
C5_VerifierFailureKeepsSubscriber ==
  (last.kind = "generate" /\ last.status = 402 /\ last.threw /\ ~last.isVip)
    => ~last.was

C5_Witness ==
  \E s \in Slots :
    /\ req[s].pc = "gen" /\ req[s].kind = "generate" /\ ~req[s].isVip
    /\ req[s].threw /\ heap[req[s].record].subscribed
    /\ heap[req[s].record].generations >= FREE_TIER_LIMIT

\* the step of slot s from the verifier's answer to the 402 or to the
\* generation call, when a Stripe call threw
GateStepAfterThrow(s) ==
  /\ req[s].pc = "verify" /\ req'[s].pc # "verify"
  /\ IF req'[s].pc = "gen" THEN req'[s].threw ELSE last'.threw

\* C6: when the verifier's outcome is Unknown the gate leaves
\* record.subscribed as it was, answers 402 exactly when the unchanged record
\* is unsubscribed with generations >= FREE_TIER_LIMIT, and answers nothing
\* else at that point.
C6_UnknownLeavesFlag ==
  [][\A s \in Slots :
       GateStepAfterThrow(s) =>
         LET o == req[s].record
         IN  /\ heap'[o].subscribed = heap[o].subscribed
             /\ (req'[s].pc = "idle") =
                  (~heap[o].subscribed /\ heap[o].generations >= FREE_TIER_LIMIT)
             /\ req'[s].pc = "idle" => last'.status = 402]_vars

C6_Witness == last.status = 402 /\ last.threw /\ ~last.was

\* the event types whose case in the running server's webhook marks the
\* identity subscribed
Activating ==
  CASE srv \in { "S1", "P1", "P1B", "P2" } -> { "checkout.session.completed" }
    [] srv = "S2" -> { "invoice.payment_succeeded" }
    [] srv \in { "P3", "DOC" } ->
         { "checkout.session.completed", "invoice.payment_succeeded" }

\* the event types that tell of a cancelled or unpaid subscription
Revoking == { "invoice.payment_failed", "customer.subscription.deleted" }

\* the step in which the webhook handles, from the signature check to the
\* response, an event of one of these types about the identity k
WebhookAnswers(types, k) ==
  /\ wh.pc = "idle" /\ wh' = wh /\ req' = req
  /\ last'.status = 200 /\ last'.kind \in types /\ last'.key = k

\* the step in which the webhook stores the activation an event brings to the
\* identity k: with the response, after the await of S2, before that of P3
ActivationStored(k) ==
  /\ k # << >>
  /\ \/ WebhookAnswers(Activating, k)
     \/ srv = "S2" /\ wh.pc = "retrieve" /\ wh'.pc # "retrieve" /\ Identity(wh.email) = k
     \/ srv = "P3" /\ wh.pc = "idle" /\ wh'.pc = "retrieve" /\ Identity(wh'.email) = k

\* C7: a payment-succeeded / checkout-completed event that names an email
\* leaves the identity's record subscribed with generations 0 whatever the
\* record was before, so that a replay of the event ends in the record its
\* first delivery produced.
C7_ActivationIdempotent ==
  [][\A k \in Identities :
       ActivationStored(k) =>
         RecordAt(usage', heap', k) = [FreshObj EXCEPT !.subscribed = TRUE]]_vars

C7_Witness ==
  /\ last.status = 200 /\ last.kind \in Activating /\ last.key # << >>
  /\ last.replay
  /\ RecordAt(usage, heap, last.key) = [FreshObj EXCEPT !.subscribed = TRUE]

\* C8: for an identity outside the VIP list, a cancellation or payment-failed
\* event that the second server of server.js handles right after it answered
\* an activation leaves the record unsubscribed with generations 0.
C8_ActivatedThenRevoked ==
  [][\A k \in Identities \ vipEmails :
       (/\ srv = "S2"
        /\ WebhookAnswers(Revoking, k)
        /\ last.status = 200 /\ last.kind \in Activating /\ last.key = k)
       => RecordAt(usage', heap', k) = FreshObj]_vars

\* C9: a payment-failed or subscription-deleted event about an identity on
\* the VIP list leaves the store, and so that identity's record, as it was.
C9_VipNotDowngraded ==
  [][\A k \in vipEmails :
       WebhookAnswers(Revoking, k) => (usage' = usage /\ heap' = heap)]_vars

C9_Witness ==
  /\ last.status = 200 /\ last.kind = "invoice.payment_failed"
  /\ last.key \in vipEmails
  /\ RecordAt(usage, heap, last.key).subscribed

\* C10: every record stored under the key of an identity on the VIP list is
\* subscribed, in every reachable state.
C10_VipRecordSubscribed ==
  \A k \in Keys : (Identity(k) \in vipEmails /\ usage[k] # 0) => heap[usage[k]].subscribed

\* the step of slot s from the verifier's answer to the 402 or to the
\* generation call
GateStep(s) == req[s].pc = "verify" /\ req'[s].pc # "verify"

\* C11: on the second server of server.js, for an identity outside the VIP
\* list whose verifier never reports an active subscription and whose
\* /generate requests come one after the other and all succeed, a request
\* passes the gate exactly while fewer than FREE_TIER_LIMIT were served (the
\* first ten are allowed, the eleventh is answered 402); the activation
\* webhook delivered after that 402 leaves generations at 0, and the next
\* /generate request, which reads the record the webhook stored, passes the
\* gate.
C11_EndToEnd ==
  [][/\ \A s \in Slots :
          (/\ GateStep(s) /\ req[s].kind = "generate"
           /\ seqOnly[req[s].key] /\ served[req[s].key] # -1
           /\ served'[req[s].key] # -1)
          => ((req'[s].pc = "gen") = (served[req[s].key] < FREE_TIER_LIMIT))
     /\ \A k \in Identities \ vipEmails :
          (ActivationStored(k) /\ last.status = 402 /\ last.full /\ last.key = k)
          => RecordAt(usage', heap', k).generations = 0
     /\ \A s \in Slots :
          (/\ GateStep(s) /\ req[s].kind = "generate"
           /\ last.status = 200 /\ last.kind \in Activating /\ last.after
           /\ last.key = req[s].key /\ usage[req[s].key] = req[s].record)
          => req'[s].pc = "gen"]_vars

C11_Witness ==
  \E s \in Slots :
    /\ req[s].pc = "gen" /\ req[s].kind = "generate" /\ req[s].vres = "false"
    /\ last.status = 200 /\ last.kind \in Activating /\ last.after
    /\ last.key = req[s].key /\ usage[req[s].key] = req[s].record
    /\ heap[req[s].record].generations = 0

\* C12: a request answered 402 has added nothing to the identity's count,
\* and a request is at the generation call only after its own free-tier test
\* ran and did not deny it.
C12_GenerationOnlyAfterQuotaCheck ==
  /\ last.status = 402 => last.charged = 0
  /\ \A s \in Slots : req[s].pc = "gen" => req[s].checked

\* C13: when the last response was the webhook's to an activation of an
\* identity and a request of that identity that read its record before the
\* activation (it holds another object than the stored one) takes its next
\* step, the stored record stays the one the activation wrote: generations
\* 0, subscribed.
C13_WebhookUpdateNotLost ==
  [][\A s \in Slots :
       (/\ req[s].pc \in { "verify", "gen" } /\ req'[s] # req[s]
        /\ last.status = 200 /\ last.kind \in Activating /\ last.key = req[s].key
        /\ usage[req[s].key] # req[s].record
        /\ RecordAt(usage, heap, req[s].key) = [FreshObj EXCEPT !.subscribed = TRUE])
       => RecordAt(usage', heap', req[s].key) = [FreshObj EXCEPT !.subscribed = TRUE]]_vars

\* the step in which the webhook answers 400 to a request whose signature
\* stripe.webhooks.constructEvent rejected
BadSignatureAnswered ==
  /\ wh.pc = "idle" /\ wh' = wh /\ req' = req
  /\ last' # last /\ last'.kind = "webhook" /\ last'.status = 400

\* C14: the step that answers 400 to a webhook request of bad signature
\* leaves every record of the store as it was; nothing of the event is
\* handled in that step or before it.
C14_BadSignatureChangesNothing ==
  [][BadSignatureAnswered => (usage' = usage /\ heap' = heap)]_vars

C14_Witness ==
  /\ last.kind = "webhook" /\ last.status = 400
  /\ \E k \in Keys : usage[k] # 0 /\ heap[usage[k]].subscribed

\* C15: every webhook request of valid signature is answered 200, whatever
\* the event's type and payload; a webhook's response carries the event type
\* as its kind, and status 0 stands for a request left unanswered.
C15_ValidSignatureAnswered200 ==
  last.kind \in P1B_EventTypes => last.status = 200

\* C16: the store never holds two records under keys that stand for the
\* same identity (keys whose lowercase-trimmed forms are equal).
C16_OneRecordPerIdentity ==
  \A k1, k2 \in Keys :
    (usage[k1] # 0 /\ usage[k2] # 0 /\ Identity(k1) = Identity(k2)) => k1 = k2

\* a step of the entitlement query GET /check-subscription: the whole
\* handler where it awaits nothing that matters to the store, else each of
\* its steps
QueryStep ==
  \/ req' = req /\ wh' = wh /\ last'.kind = "check-subscription"
  \/ \E s \in Slots :
       /\ req'[s] # req[s]
       /\ "check-subscription" \in { req[s].kind, req'[s].kind }

\* C17: no step of the entitlement query changes the store: the set of
\* records and every record's count, flag and last-check time are after it
\* what they were before.
C17_QueryReadOnly == [][QueryStep => (usage' = usage /\ heap' = heap)]_vars

\* C18: every /generate request that reached the verifier call is eventually
\* answered, also when the call never returns.
C18_EveryGenerateAnswered ==
  \A s \in Slots :
    (req[s].pc = "verify" /\ req[s].kind = "generate") ~> (req[s].pc = "idle")

\* C19: the step of a handler from the request to its first await, which
\* holds its call of getUserUsage, creates for an identity without record
\* exactly one record, with generations 0 and subscribed exactly when the
\* identity is on the VIP list, and leaves every other record alone; for an
\* identity with a record it hands that record to the handler and changes
\* and creates nothing.
C19_LazyCreation ==
  [][\A s \in Slots :
       (req[s].pc = "idle" /\ req'[s].pc = "verify") =>
         LET k == req'[s].key
         IN  IF usage[k] = 0
             THEN /\ usage'[k] # 0 /\ req'[s].record = usage'[k]
                  /\ \A j \in Keys \ {k} : usage'[j] = usage[j]
                  /\ heap'[usage'[k]] = [FreshObj EXCEPT !.subscribed = (k \in vipEmails)]
                  /\ \A o \in ObjIds \ {usage'[k]} : heap'[o] = heap[o]
             ELSE /\ usage' = usage /\ heap' = heap
                  /\ req'[s].record = usage[k]]_vars

C19_Witness ==
  \E s \in Slots :
    /\ last = NoResponse /\ wh = IdleWebhook
    /\ \A t \in Slots \ {s} : req[t] = IdleSlot
    /\ req[s].pc = "verify" /\ req[s].key \in vipEmails
    /\ usage[req[s].key] = req[s].record
    /\ heap[req[s].record] = [FreshObj EXCEPT !.subscribed = TRUE]

\* the step in which a /generate or /optimize request is answered 400
InvalidInputAnswered ==
  /\ last' # last /\ last'.status = 400
  /\ last'.kind \in { "generate", "optimize" }

\* C20: the step that answers 400 to a /generate or /optimize request with
\* a missing field changes no record and creates none, and leaves every
\* handler where it was, so that neither the verifier nor the generation
\* call is made for it; no handler is past its validation without an email.
C20_InvalidInputNoEffect ==
  [][/\ InvalidInputAnswered =>
          (usage' = usage /\ heap' = heap /\ req' = req /\ wh' = wh)
     /\ \A s \in Slots : req'[s].pc # "idle" => req'[s].key # << >>]_vars

C20_Witness ==
  /\ last.status = 400 /\ last.kind \in { "generate", "optimize" }
  /\ \E k \in Keys : usage[k] # 0 /\ heap[usage[k]].generations > 0

\* the record of slot s as the free-tier test of the step just taken saw it:
\* the object the handler holds, less what the handler charged past the test
AtQuotaCheck(s) ==
  LET o == req[s].record
  IN  [subscribed  |-> heap'[o].subscribed,
       generations |-> heap'[o].generations
                         - (IF req'[s].pc = "gen" THEN req'[s].charged ELSE 0)]

\* C21: the step from the verifier's answer to the 402 or to the generation
\* call of a /generate, /optimize or /boost request answers 402 exactly when
\* the record the handler tests is unsubscribed with generations >=
\* FREE_TIER_LIMIT; a request whose record is subscribed at the test goes on
\* to the generation call whatever its count.
C21_DeniedIffQuotaExceeded ==
  [][\A s \in Slots :
       GateStep(s) =>
         /\ (req'[s].pc = "idle") =
              (~AtQuotaCheck(s).subscribed
                 /\ AtQuotaCheck(s).generations >= FREE_TIER_LIMIT)
         /\ req'[s].pc = "idle" =>
              (last'.status = 402 /\ last'.kind = req[s].kind /\ last'.key = req[s].key)
         /\ req'[s].pc # "idle" => (req'[s].pc = "gen" /\ last' = last)]_vars

C21_Witness ==
  \E s \in Slots :
    /\ req[s].pc = "gen" /\ req[s].vres = "true" /\ ~req[s].isVip
    /\ heap[req[s].record].subscribed
    /\ heap[req[s].record].generations - req[s].charged > FREE_TIER_LIMIT

\* C22: no handler of a /generate or /optimize request of an identity on the
\* VIP list is at the call of the verifier or holds an answer of it.
C22_VipSkipsVerifier ==
  \A s \in Slots :
    (req[s].isVip /\ req[s].kind \in { "generate", "optimize" })
      => (req[s].pc # "verify" /\ req[s].vres = "none")

\* C23: the verifier's result follows the provider's answers: no customer
\* gives false, an active subscription true, none false, and an error of
\* either provider call null, never false; this for the answer a
\* /check-subscription response reports and for the one a handler holds.
C23_VerifierTriState ==
  /\ last.kind = "check-subscription" =>
       /\ last.ans = "noCustomer" => last.vres = "false"
       /\ last.ans = "activeSubscription" => last.vres = "true"
       /\ last.ans = "noActiveSubscription" => last.vres = "false"
       /\ last.ans \in { "customersError", "subscriptionsError" } => last.vres = "null"
  /\ \A s \in Slots : req[s].threw => req[s].vres = "null"

\* Stripe answered, in the step just taken, that the email of the request
\* in slot s has no customer or no active subscription
ConfirmedAbsent(s) ==
  IF req'[s].pc = "gen" THEN req'[s].absent ELSE last'.absent

\* C24: when Stripe has confirmed that an identity outside the VIP list has
\* no active subscription (the verifier's false), the step that follows
\* leaves the identity's stored record unsubscribed, whether it was
\* subscribed before or not and whether the step ends in the 402 or at the
\* generation call, and the free-tier test sees the count the record had
\* before the step.
C24_ConfirmedFalsePersisted ==
  [][\A s \in Slots :
       (GateStep(s) /\ ~req[s].isVip /\ ConfirmedAbsent(s)) =>
         LET o == req[s].record
         IN  /\ usage'[req[s].key] = o
             /\ ~heap'[o].subscribed
             /\ AtQuotaCheck(s).generations = heap[o].generations]_vars

\* C25: when the last response was the webhook's to an activation of an
\* identity outside the VIP list and a /generate request that read the
\* record the activation stored gets false from the verifier, the step that
\* follows leaves that record subscribed.
C25_WebhookOutranksVerifier ==
  [][\A s \in Slots :
       (/\ GateStep(s) /\ req[s].kind = "generate" /\ ~req[s].isVip
        /\ last.status = 200 /\ last.kind \in Activating /\ last.key = req[s].key
        /\ usage[req[s].key] = req[s].record /\ heap[req[s].record].subscribed
        /\ ConfirmedAbsent(s))
       => RecordAt(usage', heap', req[s].key).subscribed]_vars

\* C26: a /generate, /optimize or /boost request answered 200 for an
\* identity outside the VIP list whose stored record is unsubscribed has
\* added exactly 1 to the identity's count.
C26_EverySuccessCounts ==
  (/\ last.status = 200 /\ last.kind \in { "generate", "optimize", "boost" }
   /\ ~last.isVip /\ ~RecordAt(usage, heap, last.key).subscribed)
  => last.charged = 1

\* the step in which the payment-succeeded handler makes the first call of
\* its commission logic past the entitlement update of identity k: in S2 the
\* affiliate lookup, in P3 the retrieval of the subscription
CommissionStarts(k) ==
  \/ srv = "S2" /\ wh.pc = "retrieve" /\ wh'.pc = "affiliate" /\ Identity(wh.email) = k
  \/ srv = "P3" /\ wh.pc = "idle" /\ wh'.pc = "retrieve" /\ Identity(wh'.email) = k

\* the step in which a call of the commission logic made after the
\* entitlement update settles, with an error or without
CommissionSettles ==
  /\ wh' # wh
  /\ \/ srv = "S2" /\ wh.pc \in { "affiliate", "transfer" }
     \/ srv = "P3" /\ wh.pc = "retrieve"

\* C27: in the payment-succeeded webhook the record of the identity is
\* subscribed with generations 0 when the affiliate lookup (in part_003 the
\* commission logic) starts; whatever the subscription retrieval, the lookup
\* and the transfer end in, error included, the steps in which they settle
\* leave the store as it is, the record is written when the retrieval of S2
\* has settled, and the response is 200.
C27_EntitlementBeforeCommission ==
  [][/\ \A k \in Identities :
          CommissionStarts(k) =>
            RecordAt(usage', heap', k) = [FreshObj EXCEPT !.subscribed = TRUE]
     /\ CommissionSettles =>
          /\ usage' = usage /\ heap' = heap
          /\ wh'.pc = "idle" => (last'.status = 200 /\ last'.kind = wh.type)
     /\ (srv = "S2" /\ wh.pc = "retrieve" /\ wh'.pc = "idle" /\ wh.email # << >>) =>
          /\ RecordAt(usage', heap', Identity(wh.email)) = [FreshObj EXCEPT !.subscribed = TRUE]
          /\ last'.status = 200 /\ last'.kind = wh.type]_vars

C27_Witness ==
  /\ last.failed /\ last.status = 200 /\ last.kind = "invoice.payment_succeeded"
  /\ last.key \in Identities
  /\ RecordAt(usage, heap, last.key) = [FreshObj EXCEPT !.subscribed = TRUE]

\* the step in which User.findOneAndUpdate of the webhook of part_000 has
\* settled without error for an event of one of these types about an email
\* that has a document
DocumentUpdated(types) ==
  /\ srv = "DOC" /\ wh.pc = "update" /\ wh'.pc = "idle" /\ wh.type \in types
  /\ ~last'.failed /\ usage[Identity(wh.email)] # 0

\* C28: in the webhook of part_000 an upgrade event leaves the user's
\* document with isPro true and freeGenerations 0, and a downgrade event
\* about a user outside the VIP list leaves it with isPro false and
\* freeGenerations 0.
C28_DocWebhookResets ==
  [][/\ DocumentUpdated(Activating) =>
          LET d == RecordAt(usage', heap', Identity(wh.email))
          IN  d.subscribed /\ d.generations = 0
     /\ (DocumentUpdated(Revoking) /\ ~isVipEmail(wh.email)) =>
          LET d == RecordAt(usage', heap', Identity(wh.email))
          IN  ~d.subscribed /\ d.generations = 0]_vars

\* the step in which the User.create of the request in slot s stores the
\* first document of its email
DocumentCreated(s) ==
  /\ srv = "DOC" /\ req[s].pc \in { "create", "qcreate" }
  /\ usage[req[s].key] = 0 /\ usage'[req[s].key] # 0

\* C29: when the webhook has handled, without error, an upgrade event about
\* an identity that had no document, the document that the identity's first
\* /generate, /optimize or /check-subscription request after it creates and
\* answers from has isPro true.
C29_UpgradeBeforeFirstRequest ==
  [][\A s \in Slots :
       (DocumentCreated(s) /\ req[s].upgraded)
       => RecordAt(usage', heap', req[s].key).subscribed]_vars

\* C30: given the same /generate requests, verifier answers, generation
\* outcomes and webhook events about an identity, the in-memory server and
\* the document-store server answer every request with the same status and
\* keep the same generations and the same subscribed flag.
C30_BackendsAgree ==
  /\ twin.memStatus = twin.docStatus
  /\ twin.mem.generations = twin.doc.generations
  /\ twin.mem.subscribed = twin.doc.subscribed

\* C31: in part_004, where /generate and /optimize add 1 to the count before
\* the generation call and subtract 1 when it fails, the count stored for the
\* identity right after a failed generation is the count the record had when
\* the request arrived, whatever currentGenerations the client sent and
\* whatever other requests of the identity ran in between.
C31_FailureRestoresCount ==
  [][\A s \in Slots :
       (srv = "P4" /\ req[s].pc = "gen" /\ req'[s].pc = "idle" /\ last'.status = 500)
         => RecordAt(usage', heap', req[s].key).generations = req[s].before]_vars

\* C32: the count of every stored record is an integer that is never
\* negative, whatever requests (with any currentGenerations), generation
\* failures and webhook events the server has handled.
C32_CountNeverNegative == \A k \in Keys : RecordAt(usage, heap, k).generations >= 0

\* C33: once the store of part_004 holds a record for an identity, a request
\* never puts the client's currentGenerations into it: a request that passes
\* the free-tier test leaves the stored count one higher than it found it,
\* and a request denied with 402 leaves it as it found it.
C33_ClientCountOnlyWithoutRecord ==
  [][/\ \A s \in Slots :
          (srv = "P4" /\ req[s].pc = "idle" /\ req'[s].pc = "gen"
             /\ usage[req'[s].key] # 0)
            => RecordAt(usage', heap', req'[s].key).generations
                 = RecordAt(usage, heap, req'[s].key).generations + 1
     /\ (srv = "P4" /\ req' = req /\ last'.status = 402 /\ usage[last'.key] # 0)
            => RecordAt(usage', heap', last'.key).generations
                 = RecordAt(usage, heap, last'.key).generations]_vars

\* the identities a step is about: those of the requests whose handler moved,
\* of the event the webhook handler is at and, when no handler of a request
\* in flight moved, of the response sent
ActingIdentities ==
  { Identity(req[s].key) : s \in { t \in Slots : req'[t] # req[t] } }
    \cup { Identity(req'[s].key) : s \in { t \in Slots : req'[t] # req[t] } }
    \cup (IF wh' # wh THEN { Identity(wh.email), Identity(wh'.email) } ELSE { })
    \cup (IF req' = req THEN { Identity(last'.key) } ELSE { })

\* C34: a step of a request or of an event about one identity leaves what is
\* stored for every other identity as it was: whether it has a record, and
\* the count and the subscribed flag of that record.
C34_IdentitiesIndependent ==
  [][\A k \in Keys :
       RecordAt(usage', heap', k) # RecordAt(usage, heap, k)
         => Identity(k) \in ActingIdentities]_vars

\* requests of both identities are in flight, both have a record, and an
\* event has just downgraded the identity outside the VIP list while the
\* record of the other kept its flag
C34_Witness ==
  /\ last.kind = "invoice.payment_failed" /\ last.status = 200 /\ last.key = <<"u">>
  /\ usage[<<"u">>] # 0 /\ usage[<<"v">>] # 0
  /\ RecordAt(usage, heap, <<"v">>).subscribed
  /\ req[1].pc = "verify" /\ req[1].key = <<"u">>
  /\ req[2].pc = "gen" /\ req[2].key = <<"v">>

\* C35: in the first server of server.js, where the free-tier test and the
\* increment run without an await between them, the count stored for an
\* identity outside the VIP list that the verifier never reports subscribed
\* never exceeds FREE_TIER_LIMIT, whatever /generate and /optimize requests
\* overlap and whatever events arrive about it.
C35_NeverOverFreeLimit ==
  srv = "S1" =>
    \A k \in Keys : ~isVipEmail(k) => RecordAt(usage, heap, k).generations <= FREE_TIER_LIMIT

\* C35, amended: in the first server a step raises the count of a record of
\* such an identity above FREE_TIER_LIMIT only if the record is subscribed
\* when it does, which takes a checkout.session.completed event about the
\* identity; the count of a record that is not subscribed is never raised
\* above FREE_TIER_LIMIT, however the requests overlap.
C35_OverLimitOnlySubscribed ==
  [][srv = "S1" =>
       \A o \in ObjIds :
         (heap'[o].generations > FREE_TIER_LIMIT
            /\ heap'[o].generations > heap[o].generations)
           => heap'[o].subscribed]_vars

\* two overlapping requests have both passed the free-tier test of a record
\* an event had marked subscribed, and its count is above FREE_TIER_LIMIT
C35_Witness ==
  /\ srv = "S1"
  /\ \A s \in Slots : req[s].pc = "gen" /\ ~req[s].isVip /\ req[s].key = <<"u">>
                        /\ req[s].record = usage[<<"u">>]
  /\ RecordAt(usage, heap, <<"u">>).subscribed
  /\ RecordAt(usage, heap, <<"u">>).generations > FREE_TIER_LIMIT

\* C36: GET /check-subscription of the second server answers isPro = true
\* exactly when a /generate request for the same email, made in the same
\* state of the store and given the same answer by the verifier, would find
\* the record subscribed after its subscription logic and so skip the
\* free-tier limit.
C36_QueryAgreesWithGate ==
  [][(srv = "S2" /\ req' = req /\ wh' = wh
        /\ last'.kind = "check-subscription" /\ last'.status = 200)
       => last'.isPro
            = SubscriptionLogic(RecordAt(usage, heap, last'.key),
                                last'.isVip, last'.vres).subscribed]_vars

====
